---------------------------- MODULE Spec2Model ----------------------------
(***************************************************************************)
(* Whale detection and copy-trading core of the Polymarket dashboard:      *)
(*   src/whale_tracker.py            WhaleTracker                          *)
(*   src/polymarket/copy_trading.py  CopyTrading                           *)
(*   src/app.py                      the two users of the shared tracker   *)
(*                                                                         *)
(* Numbers are integers: sizes, prices and notionals are counted in whole  *)
(* units, so size * price is exact.  A JSON field that has to be a number  *)
(* is a record [ok, v]: ok = FALSE stands for a value float() rejects      *)
(* (null, a non-numeric string).  The empty string "" is the value         *)
(* dict.get(key, '') yields for a missing transaction hash.                *)
(***************************************************************************)
EXTENDS Integers, Sequences, FiniteSets, TLC

VARIABLES
    seen_transactions,  \* WhaleTracker.seen_transactions : set of hashes
    whale_trades,       \* WhaleTracker.whale_trades : list, newest first
    max_history,        \* WhaleTracker.max_history
    processed,          \* history of the run: every trade inserted, in order
    returned,           \* history of the run: every hash returned by a call
    last,               \* the last completed operation and its result
    mon,                \* run_monitor: position and locals of the loop
    callback,           \* run_monitor's callback argument: "None" or "set"
    wk,                 \* concurrent callers of check_for_new_whales
    following,          \* CopyTrading.following : wallet -> follow data
    last_checked_trades,\* CopyTrading.last_checked_trades : wallet -> time
    now,                \* int(time.time()); it moves where Tick is a step
    orders,             \* history of the run: every call of place_order
    cop,                \* the last completed CopyTrading call and its result
    listed,             \* the records get_following_list last returned
    calls,              \* the calls of copy_trade and of check_for_new_trades
                        \* the threads are in
    active_monitors,    \* CopyTrading.active_monitors : wallet -> thread
    threads,            \* the monitor_trader threads started so far
    starting            \* callers of start_monitoring past line 335

whaleVars == <<seen_transactions, whale_trades, max_history, processed,
               returned, last, mon, callback, wk>>

threadVars == <<active_monitors, threads, starting>>

copyVars == <<following, last_checked_trades, now, orders, cop, listed, calls,
              threadVars>>

vars == <<whaleVars, copyVars>>

----------------------------------------------------------------------------
(* Bounds of the model *)

MaxBatch == 2
MaxHistoryCap == 2
MaxLimit == 3
MaxConcBatch == 1
MaxOrders == 1
MaxTime == 1
MaxThreads == 2
MaxPage == 2
MaxCopies == 2

\* program constants
PageLimit == 50
DefaultLookback == 3600
SecondsPerDay == 86400

----------------------------------------------------------------------------
(* Python helpers *)

Min(a, b) == IF a <= b THEN a ELSE b
Max(a, b) == IF a >= b THEN a ELSE b

Take(s, n) == SubSeq(s, 1, Min(Max(n, 0), Len(s)))

\* s[:n] of a Python list: a negative n counts from the end
PySliceTo(s, n) == IF n >= 0 THEN Take(s, n) ELSE Take(s, Len(s) + n)

\* an insert at the wrong end
InsertFront_Append(s, x) == s \o <<x>>

\* list.insert(0, x)
InsertFront(s, x) == <<x>> \o s

RECURSIVE Reverse(_)
Reverse(s) == IF s = <<>> THEN <<>> ELSE Reverse(Tail(s)) \o <<Head(s)>>

RECURSIVE SeqsUpTo(_, _)
SeqsUpTo(S, n) ==
    IF n = 0 THEN {<<>>}
    ELSE LET shorter == SeqsUpTo(S, n - 1)
         IN  shorter \cup {Append(s, x) : s \in shorter, x \in S}

Num(n) == [ok |-> TRUE, v |-> n]
NotANumber == [ok |-> FALSE, v |-> 0]

----------------------------------------------------------------------------
(* The trade feed *)

RawTrade(h, ts, sz, pr) ==
    [transactionHash |-> h, timestamp |-> ts, size |-> sz, price |-> pr]

\* The records the feed can deliver: two different records under the same
\* hash, a record whose timestamp cannot be formatted, a record whose size
\* is not a number, and a record without a hash.
WhaleFeed ==
    { RawTrade("a", Num(1), Num(2), Num(3)),
      RawTrade("a", Num(2), Num(5), Num(1)),
      RawTrade("b", NotANumber, Num(1), Num(4)),
      RawTrade("d", Num(4), NotANumber, Num(1)),
      RawTrade("", Num(5), Num(1), Num(2)) }

Batches == SeqsUpTo(WhaleFeed, MaxBatch)

\* What requests.get(...) can produce: it raises, or it answers with a
\* status code and a body that is a JSON list or something else.
Responses ==
    { [kind |-> "exception", status_code |-> 0, body |-> <<>>],
      [kind |-> "notlist", status_code |-> 200, body |-> <<>>] }
    \cup { [kind |-> "list", status_code |-> 500, body |-> b] :
                b \in SeqsUpTo(WhaleFeed, 1) }
    \cup { [kind |-> "list", status_code |-> 200, body |-> b] : b \in Batches }

FeedFailed(resp) ==
    resp.kind = "exception" \/ resp.status_code /= 200 \/ resp.kind /= "list"

\* a fetch that forgets the status code
fetch_whale_trades_AnyStatus(resp) ==
    IF resp.kind = "list" THEN resp.body ELSE <<>>

fetch_whale_trades(resp) ==
    IF resp.kind = "exception" THEN <<>>
    ELSE IF resp.status_code = 200
         THEN IF resp.kind = "list" THEN resp.body ELSE <<>>
         ELSE <<>>

----------------------------------------------------------------------------
(* WhaleTracker.process_trade *)

process_trade_raises(trade) == ~trade.size.ok \/ ~trade.price.ok

\* a text is the sequence of its characters; None and '' are both false
\* in an or, and both are the empty text here
NoText == <<>>
Unknown == <<"U", "n", "k", "n", "o", "w", "n">>

\* trade.get(key, default)
Get(trade, key, default) ==
    IF key \in DOMAIN trade THEN trade[key] ELSE default

\* s[-n:] of a Python string, n > 0
PySliceLast(s, n) == SubSeq(s, Max(Len(s) - n, 0) + 1, Len(s))

\* line 87: f"{wallet[:6]}...{wallet[-4:]}"
Abbreviated(wallet) ==
    PySliceTo(wallet, 6) \o <<".", ".", ".">> \o PySliceLast(wallet, 4)

\* a or b of two texts
PyOr(a, b) == IF a /= NoText THEN a ELSE b

\* lines 83-88: the conditional expression takes the whole or-chain as
\* its first branch
trader_name(trade) ==
    LET wallet == Get(trade, "proxyWallet", Unknown)
    IN  IF wallet /= Unknown
        THEN PyOr(Get(trade, "name", NoText),
                  PyOr(Get(trade, "pseudonym", NoText),
                       Abbreviated(wallet)))
        ELSE Unknown

\* lines 71-117, with the fields of the result that are followed here
process_trade(trade) ==
    [transactionHash |-> trade.transactionHash,
     timestamp |-> trade.timestamp,
     size |-> trade.size.v,
     price |-> trade.price.v,
     value |-> trade.size.v * trade.price.v,
     trader |-> trader_name(trade),
     wallet |-> Get(trade, "proxyWallet", Unknown)]

\* datetime.fromtimestamp(trade['timestamp']) in format_alert
format_alert_raises(whale) == ~whale.timestamp.ok

----------------------------------------------------------------------------
(* WhaleTracker.check_for_new_whales, as one call *)

\* a test that forgets the seen set
IsUnseen_NoSeen(tx_hash, seen) == tx_hash /= ""

\* the test of line 135
IsUnseen(tx_hash, seen) == tx_hash /= "" /\ tx_hash \notin seen

\* a trim that keeps one entry too many
TrimHistory_OffByOne(hist, maxh) ==
    IF Len(hist) > maxh + 1 THEN PySliceTo(hist, maxh + 1) ELSE hist

\* lines 146-147
TrimHistory(hist, maxh) ==
    IF Len(hist) > maxh THEN PySliceTo(hist, maxh) ELSE hist

\* one iteration of the for loop over the fetched trades
CheckOne(st, trade) ==
    IF st.raised THEN st
    ELSE IF ~IsUnseen(trade.transactionHash, st.seen) THEN st
    ELSE IF process_trade_raises(trade) THEN [st EXCEPT !.raised = TRUE]
    ELSE LET w == process_trade(trade)
         IN  [st EXCEPT
                !.new_whales = Append(@, w),
                !.seen = @ \cup {trade.transactionHash},
                !.hist = TrimHistory(InsertFront(@, w), st.maxh),
                !.inserted = Append(@, w)]

RECURSIVE CheckLoop(_, _)
CheckLoop(st, trades) ==
    IF trades = <<>> THEN st
    ELSE CheckLoop(CheckOne(st, Head(trades)), Tail(trades))

check_for_new_whales(seen, hist, maxh, resp) ==
    CheckLoop([seen |-> seen, hist |-> hist, maxh |-> maxh,
               new_whales |-> <<>>, inserted |-> <<>>, raised |-> FALSE],
              fetch_whale_trades(resp))

\* a slice from the wrong end
get_recent_whales_Oldest(hist, limit) ==
    SubSeq(hist, Len(hist) - Min(Max(limit, 0), Len(hist)) + 1, Len(hist))

get_recent_whales(hist, limit) == PySliceTo(hist, limit)

Hashes(ws) == [i \in 1..Len(ws) |-> ws[i].transactionHash]

----------------------------------------------------------------------------
(* State after construction *)

NoOp == [op |-> "none", failed |-> FALSE, trades |-> <<>>,
         prev_seen |-> {}, prev_hist |-> <<>>, result |-> <<>>,
         raised |-> FALSE, limit |-> 0]

MonIdle == [pc |-> "off", new_whales |-> <<>>, i |-> 1, called |-> <<>>,
            cause |-> "none"]

WkIdle == [pc |-> "idle", trades |-> <<>>, i |-> 1, new_whales |-> <<>>,
           slice |-> <<>>]

\* CopyTrading.__init__
InitCopyTrading ==
    /\ following = <<>>
    /\ last_checked_trades = <<>>
    /\ now = 0
    /\ orders = <<>>
    /\ cop = [op |-> "none"]
    /\ listed = <<>>
    /\ calls = <<>>
    /\ active_monitors = <<>>
    /\ threads = <<>>
    /\ starting = <<>>

\* WhaleTracker.__init__
InitTracker ==
    /\ seen_transactions = {}
    /\ whale_trades = <<>>
    /\ max_history \in 0..MaxHistoryCap
    /\ processed = <<>>
    /\ returned = <<>>
    /\ last = NoOp

----------------------------------------------------------------------------
(* Sequential use of the tracker: calls that do not overlap *)

Init ==
    /\ InitTracker
    /\ InitCopyTrading
    /\ mon = MonIdle
    /\ callback = "None"
    /\ wk = [w \in {"loop", "live"} |-> WkIdle]

\* a whole call of check_for_new_whales (GET /api/whale-activity/live)
CheckForNewWhales(resp) ==
    LET r == check_for_new_whales(seen_transactions, whale_trades,
                                  max_history, resp)
    IN  /\ seen_transactions' = r.seen
        /\ whale_trades' = r.hist
        /\ processed' = processed \o r.inserted
        /\ returned' = IF r.raised THEN returned
                       ELSE returned \o Hashes(r.new_whales)
        /\ last' = [op |-> "check", failed |-> FeedFailed(resp),
                    trades |-> fetch_whale_trades(resp),
                    prev_seen |-> seen_transactions,
                    prev_hist |-> whale_trades,
                    result |-> IF r.raised THEN <<>> ELSE r.new_whales,
                    raised |-> r.raised, limit |-> 0]
        /\ UNCHANGED <<max_history, mon, callback, wk, copyVars>>

\* a whole call of get_recent_whales (GET /api/whale-activity?limit=...)
GetRecentWhales(limit) ==
    /\ last' = [op |-> "recent", failed |-> FALSE, trades |-> <<>>,
                prev_seen |-> seen_transactions, prev_hist |-> whale_trades,
                result |-> get_recent_whales(whale_trades, limit),
                raised |-> FALSE, limit |-> limit]
    /\ UNCHANGED <<seen_transactions, whale_trades, max_history, processed,
                   returned, mon, callback, wk, copyVars>>

Next ==
    \/ \E resp \in Responses : CheckForNewWhales(resp)
    \/ \E limit \in (0 - 1)..MaxLimit : GetRecentWhales(limit)

Spec == Init /\ [][Next]_vars

----------------------------------------------------------------------------
(* Properties of the sequential tracker *)

MapProcess(ts) == [i \in 1..Len(ts) |-> process_trade(ts[i])]

HashSet(ws) == {ws[i].transactionHash : i \in 1..Len(ws)}

\* C1: over the lifetime of the detector no transaction hash is returned
\* twice by sequential calls of check_for_new_whales, whatever the feed
\* repeats within a page or across pages.
C1_NeverReturnedTwice ==
    \A i, j \in 1..Len(returned) : i /= j => returned[i] /= returned[j]

\* a page that holds hash "a" twice, met after "a" had been returned
C1_Witness ==
    /\ last.op = "check" /\ ~last.failed /\ ~last.raised
    /\ Len(last.trades) = 2
    /\ last.trades[1].transactionHash = "a"
    /\ last.trades[2].transactionHash = "a"
    /\ "a" \in last.prev_seen
    /\ last.result = <<>>
    /\ Len(returned) >= 1

\* C2: after every call of check_for_new_whales the history buffer holds at
\* most max_history entries.
C2_HistoryBounded == Len(whale_trades) <= max_history

\* more trades were inserted than the buffer may hold
C2_Witness ==
    /\ last.op = "check"
    /\ max_history >= 1
    /\ Len(processed) > max_history
    /\ Len(whale_trades) = max_history

\* C4 as stated: the call returns the trades of the page whose hash was not
\* seen on a prior call, in feed order; every returned hash is seen
\* afterwards; the history is the returned trades put one by one in front
\* of the previous history, cut to max_history.
NotSeenBefore(trades, seen) ==
    LET Unseen(t) == t.transactionHash \notin seen
    IN  MapProcess(SelectSeq(trades, Unseen))

\* (read on the pages whose records all carry a hash, and on the calls
\* that return)
C4_AsStated ==
    (/\ last.op = "check" /\ ~last.raised
     /\ \A i \in 1..Len(last.trades) : last.trades[i].transactionHash /= "")
    =>
        /\ last.result = NotSeenBefore(last.trades, last.prev_seen)
        /\ HashSet(last.result) \subseteq seen_transactions
        /\ whale_trades =
             Take(Reverse(last.result) \o last.prev_hist, max_history)

\* The positions of a page the call processes: the first occurrence of each
\* non-empty hash that is not in the seen set, up to (not including) the
\* first of them whose size or price is not a number.
FreshAt(trades, seen) ==
    {i \in 1..Len(trades) :
        /\ trades[i].transactionHash /= ""
        /\ trades[i].transactionHash \notin seen
        /\ \A j \in 1..(i - 1) :
              trades[j].transactionHash /= trades[i].transactionHash}

BadAt(trades, seen) ==
    {i \in FreshAt(trades, seen) : process_trade_raises(trades[i])}

ProcessedAt(trades, seen) ==
    {i \in FreshAt(trades, seen) : \A b \in BadAt(trades, seen) : i < b}

ExpectedNew(trades, seen) ==
    LET Kept(i) == i \in ProcessedAt(trades, seen)
        idx == SelectSeq([i \in 1..Len(trades) |-> i], Kept)
    IN  [k \in 1..Len(idx) |-> process_trade(trades[idx[k]])]

\* C4 amended: the call processes, in feed order, the first occurrence in
\* the page of each non-empty hash not yet in the seen set, stopping with an
\* exception at the first such record whose size or price is not a number;
\* a call that returns, returns exactly the processed trades in feed order;
\* every processed hash is seen afterwards, and the history is the
\* processed trades put one by one in front of the previous history, cut to
\* max_history by dropping the oldest.
C4_ReturnsFirstOccurrences ==
    last.op = "check" =>
        LET exp == ExpectedNew(last.trades, last.prev_seen)
        IN  /\ last.raised <=> (BadAt(last.trades, last.prev_seen) /= {})
            /\ ~last.raised => last.result = exp
            /\ seen_transactions = last.prev_seen \cup HashSet(exp)
            /\ whale_trades =
                 Take(Reverse(exp) \o last.prev_hist, max_history)

\* a page of two new trades, the second of them now first in the history,
\* pushing an older entry out
C4_Witness ==
    /\ last.op = "check" /\ ~last.raised
    /\ Len(last.result) = 2
    /\ last.result[1].transactionHash /= last.result[2].transactionHash
    /\ max_history = 1
    /\ whale_trades = <<last.result[2]>>

\* C5: get_recent_whales(limit) returns the first limit entries of the
\* history: with N trades processed so far and max_history = M it returns
\* min(limit, N, M) entries, the most recently processed first.
C5_RecentNewestFirst ==
    (last.op = "recent" /\ last.limit >= 0) =>
        last.result =
            Take(Reverse(processed),
                 Min(last.limit, Min(Len(processed), max_history)))

\* more trades processed than the buffer holds, and more asked for
C5_Witness ==
    /\ last.op = "recent"
    /\ max_history >= 1
    /\ Len(processed) > max_history
    /\ last.limit > max_history
    /\ Len(last.result) = max_history

\* C6: when the feed fails (exception, status other than 200, body that is
\* no list) the fetch yields the empty list, and the call of
\* check_for_new_whales returns the empty list without raising and leaves
\* the seen set and the history as they were.
C6_FeedFailureAbsorbed ==
    (last.op = "check" /\ last.failed) =>
        /\ last.trades = <<>>
        /\ last.result = <<>>
        /\ ~last.raised
        /\ seen_transactions = last.prev_seen
        /\ whale_trades = last.prev_hist

\* a failed fetch on a tracker that already holds trades
C6_Witness ==
    /\ last.op = "check" /\ last.failed
    /\ seen_transactions /= {}
    /\ whale_trades /= <<>>

----------------------------------------------------------------------------
(* WhaleTracker.run_monitor: the polling loop, on its own thread *)

InitMonitor ==
    /\ InitTracker
    /\ InitCopyTrading
    /\ mon = [MonIdle EXCEPT !.pc = "check"]
    /\ callback \in {"None", "set"}
    /\ wk = [w \in {"loop", "live"} |-> WkIdle]

\* where the loop goes after handling new_whales[i]
AfterWhale(m) ==
    IF m.i >= Len(m.new_whales) THEN [m EXCEPT !.pc = "sleep"]
    ELSE [m EXCEPT !.i = @ + 1]

\* line 203: new_whales = self.check_for_new_whales(); an exception of the
\* call leaves the while loop for the handler of line 217
MonCheck(resp) ==
    /\ mon.pc = "check"
    /\ LET r == check_for_new_whales(seen_transactions, whale_trades,
                                     max_history, resp)
       IN  /\ seen_transactions' = r.seen
           /\ whale_trades' = r.hist
           /\ processed' = processed \o r.inserted
           /\ returned' = IF r.raised THEN returned
                          ELSE returned \o Hashes(r.new_whales)
           /\ mon' = IF r.raised
                     THEN [mon EXCEPT !.pc = "stopped", !.cause = "exception"]
                     ELSE [mon EXCEPT
                             !.new_whales = r.new_whales,
                             !.i = 1,
                             !.called = <<>>,
                             !.pc = IF r.new_whales = <<>> THEN "sleep"
                                    ELSE "alert"]
    /\ UNCHANGED <<max_history, last, callback, wk, copyVars>>

\* lines 207-211 for one whale, the callback (if any) returning
MonAlert ==
    /\ mon.pc = "alert"
    /\ LET whale == mon.new_whales[mon.i]
       IN  mon' = IF format_alert_raises(whale)
                  THEN [mon EXCEPT !.pc = "stopped", !.cause = "exception"]
                  ELSE IF callback = "set"
                       THEN AfterWhale([mon EXCEPT
                                          !.called = Append(@, whale)])
                       ELSE AfterWhale(mon)
    /\ UNCHANGED <<seen_transactions, whale_trades, max_history, processed,
                   returned, last, callback, wk, copyVars>>

\* lines 207-211 for one whale, the callback raising
MonCallbackRaises ==
    /\ mon.pc = "alert"
    /\ callback = "set"
    /\ ~format_alert_raises(mon.new_whales[mon.i])
    /\ mon' = [mon EXCEPT !.called = Append(@, mon.new_whales[mon.i]),
                          !.pc = "stopped", !.cause = "exception"]
    /\ UNCHANGED <<seen_transactions, whale_trades, max_history, processed,
                   returned, last, callback, wk, copyVars>>

\* line 213: time.sleep(interval)
MonSleep ==
    /\ mon.pc = "sleep"
    /\ mon' = [mon EXCEPT !.pc = "check"]
    /\ UNCHANGED <<seen_transactions, whale_trades, max_history, processed,
                   returned, last, callback, wk, copyVars>>

\* lines 215-216: KeyboardInterrupt, the external cancellation
MonInterrupt ==
    /\ mon.pc \in {"check", "alert", "sleep"}
    /\ mon' = [mon EXCEPT !.pc = "stopped", !.cause = "cancel"]
    /\ UNCHANGED <<seen_transactions, whale_trades, max_history, processed,
                   returned, last, callback, wk, copyVars>>

NextMonitor ==
    \/ \E resp \in Responses : MonCheck(resp)
    \/ MonAlert
    \/ MonCallbackRaises
    \/ MonSleep
    \/ MonInterrupt

SpecMonitor == InitMonitor /\ [][NextMonitor]_vars

\* C7: the loop of run_monitor ends only on the external cancellation: no
\* exception of a cycle (of the callback, of formatting or converting a
\* trade) ends it.
C7_StopsOnlyOnCancel == mon.pc = "stopped" => mon.cause = "cancel"

\* C8: in every cycle the callback is invoked exactly once for each trade
\* the cycle's check_for_new_whales returned, in the returned order, before
\* the sleep.
C8_CallbackOncePerNewWhale ==
    (/\ callback = "set"
     /\ mon.pc \in {"sleep", "stopped"}
     /\ mon.cause /= "cancel")
    => mon.called = mon.new_whales

----------------------------------------------------------------------------
(* check_for_new_whales called by two threads on the one tracker of        *)
(* app.py: "loop" is the thread of start_whale_monitoring, "live" a        *)
(* request of /api/whale-activity/live.  A step is one access of the       *)
(* shared tracker (its attributes are not guarded by a lock).              *)

Workers == {"loop", "live"}

ConcBatches == SeqsUpTo(WhaleFeed, MaxConcBatch)

ConcResponses ==
    { [kind |-> "exception", status_code |-> 0, body |-> <<>>] }
    \cup { [kind |-> "list", status_code |-> 200, body |-> b] :
                b \in ConcBatches }

InitConc ==
    /\ InitTracker
    /\ InitCopyTrading
    /\ mon = MonIdle
    /\ callback = "None"
    /\ wk = [w \in Workers |-> WkIdle]

\* the worker moves on to the next trade of its page, or returns
Advance(r) ==
    IF r.i >= Len(r.trades) THEN [r EXCEPT !.pc = "return"]
    ELSE [r EXCEPT !.i = @ + 1, !.pc = "test"]

\* line 129
WkFetch(w, resp) ==
    /\ wk[w].pc = "idle"
    /\ LET trades == fetch_whale_trades(resp)
       IN  wk' = [wk EXCEPT ![w] =
                    [pc |-> IF trades = <<>> THEN "return" ELSE "test",
                     trades |-> trades, i |-> 1, new_whales |-> <<>>,
                     slice |-> <<>>]]
    /\ UNCHANGED <<seen_transactions, whale_trades, max_history, processed,
                   returned, last, mon, callback, copyVars>>

\* lines 132-137: the test against the seen set, then the conversion
WkTest(w) ==
    /\ wk[w].pc = "test"
    /\ LET trade == wk[w].trades[wk[w].i]
       IN  wk' = [wk EXCEPT ![w] =
                    IF ~IsUnseen(trade.transactionHash, seen_transactions)
                    THEN Advance(@)
                    ELSE IF process_trade_raises(trade)
                         THEN [@ EXCEPT !.pc = "raised"]
                         ELSE [@ EXCEPT
                                 !.new_whales =
                                     Append(@, process_trade(trade)),
                                 !.pc = "mark"]]
    /\ UNCHANGED <<seen_transactions, whale_trades, max_history, processed,
                   returned, last, mon, callback, copyVars>>

\* line 140
WkMark(w) ==
    /\ wk[w].pc = "mark"
    /\ seen_transactions' =
         seen_transactions \cup {wk[w].trades[wk[w].i].transactionHash}
    /\ wk' = [wk EXCEPT ![w].pc = "insert"]
    /\ UNCHANGED <<whale_trades, max_history, processed, returned, last,
                   mon, callback, copyVars>>

\* line 143
WkInsert(w) ==
    /\ wk[w].pc = "insert"
    /\ LET whale == process_trade(wk[w].trades[wk[w].i])
       IN  /\ whale_trades' = InsertFront(whale_trades, whale)
           /\ processed' = Append(processed, whale)
    /\ wk' = [wk EXCEPT ![w].pc = "trimtest"]
    /\ UNCHANGED <<seen_transactions, max_history, returned, last, mon,
                   callback, copyVars>>

\* line 146
WkTrimTest(w) ==
    /\ wk[w].pc = "trimtest"
    /\ wk' = [wk EXCEPT ![w] =
                IF Len(whale_trades) > max_history
                THEN [@ EXCEPT !.pc = "slice"]
                ELSE Advance(@)]
    /\ UNCHANGED <<seen_transactions, whale_trades, max_history, processed,
                   returned, last, mon, callback, copyVars>>

\* line 147, right-hand side
WkSlice(w) ==
    /\ wk[w].pc = "slice"
    /\ wk' = [wk EXCEPT ![w].slice = PySliceTo(whale_trades, max_history),
                        ![w].pc = "store"]
    /\ UNCHANGED <<seen_transactions, whale_trades, max_history, processed,
                   returned, last, mon, callback, copyVars>>

\* line 147, the assignment
WkStore(w) ==
    /\ wk[w].pc = "store"
    /\ whale_trades' = wk[w].slice
    /\ wk' = [wk EXCEPT ![w] = Advance([@ EXCEPT !.slice = <<>>])]
    /\ UNCHANGED <<seen_transactions, max_history, processed, returned,
                   last, mon, callback, copyVars>>

\* line 149
WkReturn(w) ==
    /\ wk[w].pc = "return"
    /\ returned' = returned \o Hashes(wk[w].new_whales)
    /\ wk' = [wk EXCEPT ![w] = WkIdle]
    /\ UNCHANGED <<seen_transactions, whale_trades, max_history, processed,
                   last, mon, callback, copyVars>>

\* the call ends with the exception of process_trade: the request answers
\* 500 (app.py line 494), the loop thread leaves run_monitor for good
WkRaised(w) ==
    /\ wk[w].pc = "raised"
    /\ wk' = [wk EXCEPT ![w] =
                IF w = "loop" THEN [WkIdle EXCEPT !.pc = "dead"] ELSE WkIdle]
    /\ UNCHANGED <<seen_transactions, whale_trades, max_history, processed,
                   returned, last, mon, callback, copyVars>>

NextConc ==
    \E w \in Workers :
        \/ \E resp \in ConcResponses : WkFetch(w, resp)
        \/ WkTest(w)
        \/ WkMark(w)
        \/ WkInsert(w)
        \/ WkTrimTest(w)
        \/ WkSlice(w)
        \/ WkStore(w)
        \/ WkReturn(w)
        \/ WkRaised(w)

SpecConc == InitConc /\ [][NextConc]_vars

\* C3: with the loop thread and a live request inside check_for_new_whales
\* at once, a transaction hash is returned by at most one call and is
\* inserted into the history at most once, under every interleaving.
C3_ProcessedAtMostOnce ==
    /\ \A i, j \in 1..Len(returned) : i /= j => returned[i] /= returned[j]
    /\ \A i, j \in 1..Len(processed) :
          i /= j => processed[i].transactionHash /= processed[j].transactionHash

----------------------------------------------------------------------------
(* CopyTrading: settings and the policy                                    *)
(*                                                                         *)
(* A copy size is counted in hundredths of a share (size * percentage), so *)
(* that size * copy_percentage / 100 stays an integer; a copied volume is  *)
(* counted in the same hundredths times the price.                         *)

Wallets == {"w1", "w2"}

\* markets_to_copy is None or a list of slugs
NoneList == [is_none |-> TRUE, items |-> {}]
ListOf(S) == [is_none |-> FALSE, items |-> S]

\* lines 52-61
default_settings ==
    [max_position_size |-> 100,
     copy_percentage |-> 10,
     max_total_exposure |-> 1000,
     markets_to_copy |-> NoneList,
     markets_to_exclude |-> {},
     min_trader_confidence |-> 10,
     auto_exit |-> TRUE,
     enabled |-> TRUE]

\* line 64: {**default_settings, **(copy_settings or {})}
MergeSettings(defaults, override) ==
    [k \in DOMAIN defaults \cup DOMAIN override |->
        IF k \in DOMAIN override THEN override[k] ELSE defaults[k]]

\* the copy_settings arguments of follow_trader that are tried
Overrides ==
    { <<>>,
      [enabled |-> FALSE, min_trader_confidence |-> 0,
       markets_to_copy |-> ListOf({"m1"})],
      [min_trader_confidence |-> 50],
      [copy_percentage |-> 1000, max_position_size |-> 5],
      [copy_percentage |-> 0 - 10, min_trader_confidence |-> 0] }

FeedTrade(slug, sz, pr, side) ==
    [market_slug |-> slug, size |-> sz, price |-> pr, asset |-> "tok",
     side |-> side]

\* the trades of a followed trader: notionals 60, 40 and 10, a trade of
\* size 0, and one whose size is not a number; "" is a trade without a
\* market slug; the feed writes the side in capitals, one record does not
CopyFeed ==
    { FeedTrade("m1", Num(10), Num(6), "BUY"),
      FeedTrade("m2", Num(4), Num(10), "SELL"),
      FeedTrade("", Num(10), Num(1), "buy"),
      FeedTrade("m1", Num(0), Num(5), "BUY"),
      FeedTrade("m2", NotANumber, Num(5), "SELL") }

\* the settings should_copy_trade is called with directly
PolicySettings ==
    { MergeSettings(default_settings,
                    [enabled |-> e, min_trader_confidence |-> m,
                     markets_to_copy |-> c, markets_to_exclude |-> x]) :
        e \in BOOLEAN, m \in {0, 10, 50},
        c \in {NoneList, ListOf({}), ListOf({"m1"}), ListOf({"m1", "m2"})},
        x \in {{}, {"m1"}, {""}} }

Numeric(trade) == trade.size.ok /\ trade.price.ok

Notional(trade) == trade.size.v * trade.price.v

Returns(b) == [raised |-> FALSE, value |-> b]
Raises == [raised |-> TRUE, value |-> FALSE]

\* a policy that forgets the enabled flag
should_copy_trade_NoEnabled(trade, settings) ==
    IF ~Numeric(trade) THEN Raises
    ELSE IF Notional(trade) < settings.min_trader_confidence
    THEN Returns(FALSE)
    ELSE IF /\ ~settings.markets_to_copy.is_none
            /\ settings.markets_to_copy.items /= {}
            /\ trade.market_slug \notin settings.markets_to_copy.items
    THEN Returns(FALSE)
    ELSE IF trade.market_slug \in settings.markets_to_exclude
    THEN Returns(FALSE)
    ELSE Returns(TRUE)

\* a policy that lets the allow-list win over the deny-list
should_copy_trade_AllowWins(trade, settings) ==
    IF ~settings.enabled THEN Returns(FALSE)
    ELSE IF ~Numeric(trade) THEN Raises
    ELSE IF Notional(trade) < settings.min_trader_confidence
    THEN Returns(FALSE)
    ELSE IF /\ ~settings.markets_to_copy.is_none
            /\ settings.markets_to_copy.items /= {}
    THEN Returns(trade.market_slug \in settings.markets_to_copy.items)
    ELSE Returns(trade.market_slug \notin settings.markets_to_exclude)

\* lines 165-185
should_copy_trade(trade, settings) ==
    IF ~settings.enabled THEN Returns(FALSE)
    ELSE IF ~Numeric(trade) THEN Raises
    ELSE IF Notional(trade) < settings.min_trader_confidence
    THEN Returns(FALSE)
    ELSE IF /\ ~settings.markets_to_copy.is_none
            /\ settings.markets_to_copy.items /= {}
            /\ trade.market_slug \notin settings.markets_to_copy.items
    THEN Returns(FALSE)
    ELSE IF trade.market_slug \in settings.markets_to_exclude
    THEN Returns(FALSE)
    ELSE Returns(TRUE)

\* a sizing that scales the notional value instead of the share count
calculate_copy_size_Notional(trade, settings) ==
    Min(trade.size.v * trade.price.v * settings.copy_percentage,
        settings.max_position_size * 100)

\* line 198: float() of a size that is not a number raises
calculate_copy_size_raises(trade) == ~trade.size.ok

\* lines 198-208, in hundredths of a share
calculate_copy_size(trade, settings) ==
    Min(trade.size.v * settings.copy_percentage,
        settings.max_position_size * 100)

----------------------------------------------------------------------------
(* CopyTrading: the registry and copy_trade, as whole calls *)

\* d[k] = v and d.pop(k, None) of a Python dict
PutKey(d, k, v) == [x \in DOMAIN d \cup {k} |-> IF x = k THEN v ELSE d[x]]
DelKey(d, k) == [x \in DOMAIN d \ {k} |-> d[x]]

\* str.upper() on the side of a trade
Upper(side) == IF side = "buy" THEN "BUY"
               ELSE IF side = "sell" THEN "SELL" ELSE side

\* the record of a wallet before a call, for the calls that replace it
PrevRecord(w) ==
    IF w \in DOMAIN following
    THEN [exists |-> TRUE, record |-> following[w]]
    ELSE [exists |-> FALSE]

\* a follow_trader that merges the override over the stored settings
FollowSettings_CarryOver(w, override) ==
    MergeSettings(IF w \in DOMAIN following THEN following[w].settings
                  ELSE default_settings, override)

\* lines 52-64: the settings follow_trader stores
FollowSettings(w, override) == MergeSettings(default_settings, override)

\* a follow_trader that keeps the counters of a record it replaces
FollowCounter_Keep(w, n) == n

\* lines 71-72: the counters of the record follow_trader stores; n is the
\* counter of the record it replaces
FollowCounter(w, n) == 0

\* the records a caller holds from get_following_list are the dicts of the
\* registry themselves (line 119): a held record is live while the registry
\* still holds that dict, and a dict the registry has dropped (lines 67 and
\* 96) lives on in the caller's list with the value it had
Detach(w) ==
    [v \in DOMAIN listed |->
        IF v = w /\ listed[v].live
        THEN [listed[v] EXCEPT !.live = FALSE, !.rec = following[w]]
        ELSE listed[v]]

\* follow_data of a copy_trade call (line 228) is the dict of the registry
\* itself: when the registry drops that dict (lines 67 and 96) the call
\* keeps it, with the value it had, and goes on writing to it; since_follow
\* says that the order of the call was placed after the latest
\* follow_trader of the wallet, with no unfollow_trader since
DetachCalls(w) ==
    [i \in DOMAIN calls |->
        IF calls[i].wallet /= w THEN calls[i]
        ELSE IF calls[i].live
        THEN [calls[i] EXCEPT !.live = FALSE, !.rec = following[w],
                              !.since_follow = FALSE]
        ELSE [calls[i] EXCEPT !.since_follow = FALSE]]

\* lines 30-83; the clock is read at line 70 and again at line 76, where it
\* shows t
FollowTrader(w, override, t) ==
    LET settings == FollowSettings(w, override)
        prev == PrevRecord(w)
    IN  /\ t >= now
        /\ following' = PutKey(following, w,
                               [trader_wallet |-> w,
                                settings |-> settings,
                                started_at |-> now,
                                total_copied_trades |->
                                    FollowCounter(w,
                                        IF prev.exists
                                        THEN prev.record.total_copied_trades
                                        ELSE 0),
                                total_volume_copied |->
                                    FollowCounter(w,
                                        IF prev.exists
                                        THEN prev.record.total_volume_copied
                                        ELSE 0)])
        /\ last_checked_trades' = PutKey(last_checked_trades, w, t)
        /\ now' = t
        /\ listed' = Detach(w)
        /\ calls' = DetachCalls(w)
        /\ cop' = [op |-> "follow", wallet |-> w, settings |-> settings,
                   override |-> override, at |-> now, done |-> t,
                   prev |-> prev]
        /\ UNCHANGED <<orders, threadVars, whaleVars>>

\* an unfollow_trader that leaves the watermark behind
UnfollowWatermarks_Keep(w) == last_checked_trades

\* an unfollow_trader that clears the watermarks of all the wallets
UnfollowWatermarks_All(w) == <<>>

\* line 97
UnfollowWatermarks(w) == DelKey(last_checked_trades, w)

\* lines 95-110: the registry, the watermarks, the held records and the
\* value handed back
unfollow_trader(w) ==
    IF w \in DOMAIN following
    THEN [following |-> DelKey(following, w),
          last_checked_trades |-> UnfollowWatermarks(w),
          listed |-> Detach(w),
          calls |-> DetachCalls(w),
          reply |-> [op |-> "unfollow", wallet |-> w, success |-> TRUE,
                        total_copied_trades |->
                            following[w].total_copied_trades,
                        total_volume_copied |->
                            following[w].total_volume_copied]]
    ELSE [following |-> following,
          last_checked_trades |-> last_checked_trades,
          listed |-> listed,
          calls |-> calls,
          reply |-> [op |-> "unfollow", wallet |-> w, success |-> FALSE,
                        total_copied_trades |-> 0,
                        total_volume_copied |-> 0]]

\* lines 85-110
UnfollowTrader(w) ==
    LET r == unfollow_trader(w)
    IN  /\ following' = r.following
        /\ last_checked_trades' = r.last_checked_trades
        /\ listed' = r.listed
        /\ calls' = r.calls
        /\ cop' = r.reply
        /\ UNCHANGED <<now, orders, threadVars, whaleVars>>

\* the result of copy_trade and what it did on the way; reply is the
\* value handed back
CopyOutcome(w, trade, settings, followed, should, result, submitted, reply) ==
    [op |-> "copy", wallet |-> w, trade |-> trade, settings |-> settings,
     followed |-> followed, value |-> should.value,
     raised |-> should.raised, result |-> result, submitted |-> submitted,
     reply |-> reply]

ReturnsNone == [is_none |-> TRUE]

\* a copy_trade that lets a copy size of exactly 0 through
SizeRejected_Strict(copy_size) == copy_size < 0

\* line 238
SizeRejected(copy_size) == copy_size <= 0

\* a copy_trade that counts downwards
TradesAfter_Down(n) == n - 1

\* line 256
TradesAfter(n) == n + 1

\* a copy_trade that adds the volume of the trader's own trade
VolumeAfter_Original(volume, trade, copy_size) ==
    volume + trade.size.v * 100 * trade.price.v

\* line 257
VolumeAfter(volume, trade, copy_size) == volume + copy_size * trade.price.v

\* lines 242-253: the arguments of place_order
PlaceOrderArgs(trade, copy_size) ==
    [token_id |-> trade.asset,
     price |-> trade.price.v,
     size |-> copy_size,
     side |-> Upper(trade.side)]

\* str(e) of the exception place_order raises (line 269)
PlaceOrderError == "place_order failed"

\* what place_order returns for the n-th order placed
OrderResponse(n) == [success |-> TRUE, order_id |-> n]

\* lines 225-273 on the registry foll, with n orders placed before;
\* order_ok says whether place_order returns or raises
copy_trade(foll, n, w, trade, order_ok) ==
    IF w \notin DOMAIN foll
    THEN [following |-> foll, placed |-> <<>>,
          outcome |-> CopyOutcome(w, trade, default_settings, FALSE,
                                  Returns(FALSE), "None", FALSE,
                                  ReturnsNone)]
    ELSE
      LET settings == foll[w].settings
          should == should_copy_trade(trade, settings)
          copy_size == calculate_copy_size(trade, settings)
      IN  IF should.raised
          THEN [following |-> foll, placed |-> <<>>,
                outcome |-> CopyOutcome(w, trade, settings, TRUE, should,
                                        "raised", FALSE, ReturnsNone)]
          ELSE IF ~should.value \/ SizeRejected(copy_size)
          THEN [following |-> foll, placed |-> <<>>,
                outcome |-> CopyOutcome(w, trade, settings, TRUE, should,
                                        "None", FALSE, ReturnsNone)]
          ELSE IF order_ok
          THEN [following |->
                    [foll EXCEPT
                       ![w].total_copied_trades = TradesAfter(@),
                       ![w].total_volume_copied =
                           VolumeAfter(@, trade, copy_size)],
                placed |-> <<[wallet |-> w, ok |-> TRUE,
                              enabled |-> settings.enabled, trade |-> trade,
                              args |-> PlaceOrderArgs(trade, copy_size)]>>,
                outcome |-> CopyOutcome(w, trade, settings, TRUE, should,
                                        "success", TRUE,
                                        [success |-> TRUE,
                                         order |-> OrderResponse(n + 1),
                                         copied_from |-> w,
                                         original_trade |-> trade,
                                         copy_size |-> copy_size])]
          ELSE [following |-> foll,
                placed |-> <<[wallet |-> w, ok |-> FALSE,
                              enabled |-> settings.enabled, trade |-> trade,
                              args |-> PlaceOrderArgs(trade, copy_size)]>>,
                outcome |-> CopyOutcome(w, trade, settings, TRUE, should,
                                        "failure", TRUE,
                                        [success |-> FALSE,
                                         error |-> PlaceOrderError,
                                         copied_from |-> w,
                                         original_trade |-> trade])]

\* lines 210-273, called by the owner of the CopyTrading object
CopyTrade(w, trade, order_ok) ==
    LET r == copy_trade(following, Len(orders), w, trade, order_ok)
    IN  /\ Len(orders) < MaxOrders
        /\ following' = r.following
        /\ orders' = orders \o r.placed
        /\ cop' = r.outcome
        /\ UNCHANGED <<last_checked_trades, now, listed, calls, threadVars,
                       whaleVars>>

\* a direct call of should_copy_trade (lines 154-185)
ShouldCopyTrade(trade, settings) ==
    LET should == should_copy_trade(trade, settings)
    IN  /\ cop' = [op |-> "should", trade |-> trade, settings |-> settings,
                   value |-> should.value, raised |-> should.raised]
        /\ UNCHANGED <<following, last_checked_trades, now, orders, listed,
                       calls, threadVars, whaleVars>>

InitCopy ==
    /\ InitTracker
    /\ max_history = MaxHistoryCap
    /\ InitCopyTrading
    /\ mon = MonIdle
    /\ callback = "None"
    /\ wk = [w \in {"loop", "live"} |-> WkIdle]

NextCopy ==
    \/ \E w \in Wallets, override \in Overrides :
          FollowTrader(w, override, now)
    \/ \E w \in Wallets : UnfollowTrader(w)
    \/ \E w \in Wallets, trade \in CopyFeed, order_ok \in BOOLEAN :
          CopyTrade(w, trade, order_ok)

SpecCopy == InitCopy /\ [][NextCopy]_vars

\* should_copy_trade as a function of its two arguments
NextPolicy ==
    \E trade \in CopyFeed, settings \in PolicySettings :
        ShouldCopyTrade(trade, settings)

SpecPolicy == InitCopy /\ [][NextPolicy]_vars

\* C9: should_copy_trade returns False whenever settings.enabled is False,
\* whatever the trade and the other settings; so copy_trade places no order
\* for a wallet whose settings have enabled = False.  (cop.value is what
\* should_copy_trade returned to copy_trade.)
C9_DisabledNeverCopies ==
    /\ (cop.op = "copy" /\ cop.followed /\ ~cop.settings.enabled) =>
          /\ ~cop.raised /\ ~cop.value
          /\ cop.result = "None"
          /\ ~cop.submitted
    /\ \A i \in 1..Len(orders) : orders[i].enabled

\* a disabled wallet meets a trade that passes every other test
C9_Witness ==
    /\ cop.op = "copy" /\ cop.followed
    /\ ~cop.settings.enabled
    /\ Numeric(cop.trade)
    /\ Notional(cop.trade) >= cop.settings.min_trader_confidence
    /\ cop.trade.market_slug \in cop.settings.markets_to_copy.items
    /\ cop.trade.market_slug \notin cop.settings.markets_to_exclude
    /\ cop.trade.size.v > 0
    /\ cop.result = "None"

\* C10: should_copy_trade returns True exactly when enabled is set, the
\* notional size * price is at least min_trader_confidence, markets_to_copy
\* is unset or empty or holds the trade's slug, and markets_to_exclude does
\* not hold the slug (for a trade whose size and price are numbers).
C10_ShouldCopyIffAllFour ==
    (cop.op = "should" /\ Numeric(cop.trade)) =>
        /\ ~cop.raised
        /\ cop.value <=>
             /\ cop.settings.enabled
             /\ cop.trade.size.v * cop.trade.price.v
                  >= cop.settings.min_trader_confidence
             /\ \/ cop.settings.markets_to_copy.is_none
                \/ cop.settings.markets_to_copy.items = {}
                \/ cop.trade.market_slug
                     \in cop.settings.markets_to_copy.items
             /\ cop.trade.market_slug \notin cop.settings.markets_to_exclude

\* a slug on both lists is rejected
C10_Witness ==
    /\ cop.op = "should"
    /\ cop.settings.enabled
    /\ Numeric(cop.trade)
    /\ Notional(cop.trade) >= cop.settings.min_trader_confidence
    /\ cop.trade.market_slug \in cop.settings.markets_to_copy.items
    /\ cop.trade.market_slug \in cop.settings.markets_to_exclude
    /\ ~cop.value


----------------------------------------------------------------------------
(* calculate_copy_size as a function of its two arguments *)

\* the trades calculate_copy_size is called with directly: sizes below, at
\* and above zero, each at two prices; in this feed a price is counted in
\* hundredths (60 is a price of 0.60), and calculate_copy_size never reads it
SizeFeed ==
    { FeedTrade("m1", Num(sz), Num(pr), "BUY") :
        sz \in {0 - 10, 0, 4, 100}, pr \in {60, 100} }
    \cup { FeedTrade("m1", NotANumber, Num(60), "BUY") }

\* the settings calculate_copy_size is called with directly; follow_trader
\* stores whatever the caller passes (line 64), negative numbers included
SizeSettings ==
    { MergeSettings(default_settings,
                    [copy_percentage |-> p, max_position_size |-> m]) :
        p \in {0 - 10, 0, 10, 1000}, m \in {0 - 5, 0, 5, 100} }

\* a direct call of calculate_copy_size (lines 187-208)
CalculateCopySize(trade, settings) ==
    /\ cop' = [op |-> "size", trade |-> trade, settings |-> settings,
               raised |-> calculate_copy_size_raises(trade),
               value |-> IF calculate_copy_size_raises(trade) THEN 0
                         ELSE calculate_copy_size(trade, settings)]
    /\ UNCHANGED <<following, last_checked_trades, now, orders, listed, calls,
                   threadVars, whaleVars>>

NextSize ==
    \E trade \in SizeFeed, settings \in SizeSettings :
        CalculateCopySize(trade, settings)

SpecSize == InitCopy /\ [][NextSize]_vars

\* C11: for every trade and every settings value follow accepts (negative
\* or zero copy_percentage, negative size, negative max_position_size
\* included) the copy size lies in [0, max_position_size]: never negative
\* and never above the cap.
C11_CopySizeInRange ==
    (cop.op = "size" /\ ~cop.raised) =>
        /\ cop.value >= 0
        /\ cop.value <= cop.settings.max_position_size * 100

\* the trade of size 100 with copy_percentage 10 and max_position_size 100
SizeExample ==
    /\ cop.op = "size" /\ ~cop.raised
    /\ cop.trade.size.v = 100
    /\ cop.settings.copy_percentage = 10
    /\ cop.settings.max_position_size = 100

\* size * copy_percentage / 100 capped at max_position_size, and the same
\* for every trade of the feed that differs in price only
SizeFormula ==
    (cop.op = "size" /\ ~cop.raised) =>
        /\ cop.value = Min(cop.trade.size.v * cop.settings.copy_percentage,
                           cop.settings.max_position_size * 100)
        /\ \A t \in SizeFeed :
              (t.size = cop.trade.size /\ t.market_slug = cop.trade.market_slug)
                  => ~calculate_copy_size_raises(t)
                     /\ calculate_copy_size(t, cop.settings) = cop.value

\* C12 as stated: the copy size is min(size * copy_percentage / 100,
\* max_position_size) whatever the price, and size 100 with copy_percentage
\* 10 and max_position_size 100 gives 6 at price 0.60.
C12_AsStated ==
    /\ SizeFormula
    /\ (SizeExample /\ cop.trade.price.v = 60) => cop.value = 6 * 100

\* C12: the copy size is min(size * copy_percentage / 100,
\* max_position_size) whatever the price; size 100 with copy_percentage 10
\* and max_position_size 100 gives 10 at price 0.60 and at any other price.
C12_CopySizeFormula ==
    /\ SizeFormula
    /\ SizeExample => cop.value = 10 * 100

\* the example trade at price 0.60
C12_Witness ==
    /\ SizeExample
    /\ cop.trade.price.v = 60
    /\ cop.value = 10 * 100


----------------------------------------------------------------------------
(* The follow registry with a running clock *)

\* time.time() (lines 70 and 76) shows a later second
Tick ==
    /\ now < MaxTime
    /\ now' = now + 1
    /\ UNCHANGED <<following, last_checked_trades, orders, cop, listed, calls,
                   threadVars, whaleVars>>

\* the copy_settings of the follow_trader calls of the registry
RegistryOverrides ==
    { <<>>,
      [min_trader_confidence |-> 50],
      [copy_percentage |-> 1000, max_position_size |-> 5] }

\* the trade the followed traders make: notional 60
RegistryFeed == { FeedTrade("m1", Num(10), Num(6), "BUY") }

NextRegistry ==
    \/ \E w \in Wallets, override \in RegistryOverrides, t \in now..MaxTime :
          FollowTrader(w, override, t)
    \/ \E w \in Wallets : UnfollowTrader(w)
    \/ \E w \in Wallets, trade \in RegistryFeed, order_ok \in BOOLEAN :
          CopyTrade(w, trade, order_ok)
    \/ Tick

SpecRegistry == InitCopy /\ [][NextRegistry]_vars

\* C13: follow_trader on a wallet that already has a record replaces the
\* record: right after the call both counters are 0 whatever they were,
\* started_at and the watermark hold the clock readings of the call (lines
\* 70 and 76), and exactly one record exists for the wallet.
C13_RefollowResets ==
    (cop.op = "follow" /\ cop.prev.exists) =>
        /\ cop.wallet \in DOMAIN following
        /\ following[cop.wallet].total_copied_trades = 0
        /\ following[cop.wallet].total_volume_copied = 0
        /\ following[cop.wallet].started_at = cop.at
        /\ cop.wallet \in DOMAIN last_checked_trades
        /\ last_checked_trades[cop.wallet] = cop.done
        /\ cop.at <= cop.done /\ cop.done <= now
        /\ Cardinality({k \in DOMAIN following :
                          following[k].trader_wallet = cop.wallet}) = 1

\* a record with a copied trade, made at an earlier second, is replaced
C13_Witness ==
    /\ cop.op = "follow" /\ cop.prev.exists
    /\ cop.prev.record.total_copied_trades > 0
    /\ cop.prev.record.total_volume_copied > 0
    /\ cop.prev.record.started_at < cop.at
    /\ following[cop.wallet].total_copied_trades = 0
    /\ following[cop.wallet].started_at = cop.at

\* C14: on every follow_trader call the stored settings are the defaults
\* overridden field by field by the copy_settings passed; a field the
\* caller omits takes its default even if an earlier follow of the same
\* wallet had set it to something else.
C14_SettingsFromDefaults ==
    cop.op = "follow" =>
        LET stored == following[cop.wallet].settings
        IN  /\ DOMAIN stored = DOMAIN default_settings \cup DOMAIN cop.override
            /\ \A k \in DOMAIN stored :
                  stored[k] = IF k \in DOMAIN cop.override
                              THEN cop.override[k]
                              ELSE default_settings[k]

\* min_trader_confidence was 50 in the replaced record and is omitted now
C14_Witness ==
    /\ cop.op = "follow" /\ cop.prev.exists
    /\ cop.prev.record.settings.min_trader_confidence = 50
    /\ "min_trader_confidence" \notin DOMAIN cop.override
    /\ following[cop.wallet].settings.min_trader_confidence = 10

----------------------------------------------------------------------------
(* get_following_list and what its caller does with the list *)

\* lines 112-119: list(self.following.values()) is a new list of the same
\* dicts; taken is the value each record had when the call returned
GetFollowingList ==
    /\ listed' = [w \in DOMAIN following |->
                     [live |-> TRUE, rec |-> following[w],
                      taken |-> following[w], mutated |-> FALSE]]
    /\ cop' = [op |-> "list"]
    /\ UNCHANGED <<following, last_checked_trades, now, orders, calls,
                   threadVars, whaleVars>>

\* what the caller reads in the record it holds for wallet w
HeldRecord(w) == IF listed[w].live THEN following[w] ELSE listed[w].rec

\* the changes a caller makes to a record it holds: it sets a counter, or a
\* field of the record's settings
Mutations == {"counter", "settings"}

MutatedRecord(rec, m) ==
    IF m = "counter"
    THEN [rec EXCEPT !.total_copied_trades = 7]
    ELSE [rec EXCEPT !.settings.enabled = FALSE]

\* the caller of get_following_list (line 119) writes to a record of the
\* list it got
MutateSnapshot(w, m) ==
    /\ w \in DOMAIN listed
    /\ ~listed[w].mutated
    /\ IF listed[w].live
       THEN /\ following' = [following EXCEPT ![w] = MutatedRecord(@, m)]
            /\ listed' = [listed EXCEPT ![w].mutated = TRUE]
       ELSE /\ listed' = [listed EXCEPT ![w].mutated = TRUE,
                                        ![w].rec = MutatedRecord(@, m)]
            /\ UNCHANGED following
    /\ cop' = [op |-> "mutate", wallet |-> w, before |-> following]
    /\ UNCHANGED <<last_checked_trades, now, orders, calls, threadVars,
                   whaleVars>>

NextList ==
    \/ \E w \in Wallets : FollowTrader(w, <<>>, now)
    \/ \E w \in Wallets : UnfollowTrader(w)
    \/ \E w \in Wallets, trade \in RegistryFeed, order_ok \in BOOLEAN :
          CopyTrade(w, trade, order_ok)
    \/ GetFollowingList
    \/ \E w \in Wallets, m \in Mutations : MutateSnapshot(w, m)

SpecList == InitCopy /\ [][NextList]_vars

\* C16: get_following_list returns value copies: writing to a field of a
\* returned record never changes the registry, and a later counter update
\* never changes a record already returned.
C16_ListReturnsCopies ==
    /\ cop.op = "mutate" => following = cop.before
    /\ \A w \in DOMAIN listed :
          ~listed[w].mutated => HeldRecord(w) = listed[w].taken


----------------------------------------------------------------------------
(* start_monitoring, stop_monitoring and the monitor_trader threads *)

\* the threads that have not returned from monitor_trader
Running(w) ==
    {i \in DOMAIN threads : threads[i].wallet = w /\ threads[i].pc /= "done"}

\* the locals of a monitor_trader thread as line 338 creates it; called
\* counts the calls of the callback and caught says where the exception
\* came from that the handler of line 312 caught last
NewThread(w, cb) ==
    [wallet |-> w, pc |-> "test", callback |-> cb, new_trades |-> <<>>,
     called |-> 0, caught |-> "none"]

\* lines 316-345; cb is the callback argument, "None" or "set"
StartMonitoring(w, cb) ==
    /\ IF w \notin DOMAIN following
       THEN /\ cop' = [op |-> "start", wallet |-> w, raised |-> TRUE,
                       started |-> FALSE]
            /\ UNCHANGED threadVars
       ELSE IF w \in DOMAIN active_monitors
       THEN /\ cop' = [op |-> "start", wallet |-> w, raised |-> FALSE,
                       started |-> FALSE]
            /\ UNCHANGED threadVars
       ELSE /\ Len(threads) < MaxThreads
            /\ threads' = Append(threads, NewThread(w, cb))
            /\ active_monitors' = PutKey(active_monitors, w, Len(threads) + 1)
            /\ starting' = starting
            /\ cop' = [op |-> "start", wallet |-> w, raised |-> FALSE,
                       started |-> TRUE]
    /\ UNCHANGED <<following, last_checked_trades, now, orders, listed, calls,
                   whaleVars>>

\* lines 330-335: caller c of start_monitoring makes the two tests
StartCheck(c, w, cb) ==
    /\ c \notin DOMAIN starting
    /\ IF w \notin DOMAIN following
       THEN /\ cop' = [op |-> "start", wallet |-> w, raised |-> TRUE,
                       started |-> FALSE]
            /\ starting' = starting
       ELSE IF w \in DOMAIN active_monitors
       THEN /\ cop' = [op |-> "start", wallet |-> w, raised |-> FALSE,
                       started |-> FALSE]
            /\ starting' = starting
       ELSE /\ cop' = [op |-> "start_check", wallet |-> w]
            /\ starting' = PutKey(starting, c,
                                  [wallet |-> w, callback |-> cb])
    /\ UNCHANGED <<following, last_checked_trades, now, orders, listed, calls,
                   active_monitors, threads, whaleVars>>

\* lines 338-345: caller c creates and starts the thread and stores it
StartLaunch(c) ==
    LET w == starting[c].wallet
    IN  /\ c \in DOMAIN starting
        /\ Len(threads) < MaxThreads
        /\ threads' = Append(threads, NewThread(w, starting[c].callback))
        /\ active_monitors' = PutKey(active_monitors, w, Len(threads) + 1)
        /\ starting' = DelKey(starting, c)
        /\ cop' = [op |-> "start", wallet |-> w, raised |-> FALSE,
                   started |-> TRUE]
        /\ UNCHANGED <<following, last_checked_trades, now, orders, listed,
                       calls, whaleVars>>

\* lines 347-358
StopMonitoring(w) ==
    /\ IF w \in DOMAIN active_monitors
       THEN LET r == unfollow_trader(w)
            IN  /\ following' = r.following
                /\ last_checked_trades' = r.last_checked_trades
                /\ listed' = r.listed
                /\ calls' = r.calls
                /\ active_monitors' = DelKey(active_monitors, w)
                /\ cop' = [op |-> "stop", wallet |-> w, stopped |-> TRUE]
       ELSE /\ cop' = [op |-> "stop", wallet |-> w, stopped |-> FALSE]
            /\ UNCHANGED <<following, last_checked_trades, listed, calls,
                           active_monitors>>
    /\ UNCHANGED <<now, orders, threads, starting, whaleVars>>

\* what a step of a monitor_trader thread leaves in cop
MonitorStep(i) == [op |-> "monitor", wallet |-> threads[i].wallet]

\* line 291: the loop test of monitor_trader
MonitorTest(i) ==
    /\ threads[i].pc = "test"
    /\ threads' = [threads EXCEPT ![i].pc =
                      IF threads[i].wallet \in DOMAIN following
                      THEN "poll" ELSE "done"]
    /\ cop' = MonitorStep(i)
    /\ UNCHANGED <<following, last_checked_trades, now, orders, listed, calls,
                   active_monitors, starting, whaleVars>>

\* a record of the trades feed with the fields the poll reads
TimedTrade(h, ts, slug, sz, pr, side) ==
    [transactionHash |-> h, timestamp |-> ts, market_slug |-> slug,
     size |-> sz, price |-> pr, asset |-> "tok", side |-> side]

\* the trades of the feed: one made at the last second of the clock, one
\* stamped later than the clock ever shows, and one whose size is not a
\* number
PollFeed ==
    { TimedTrade("new", MaxTime, "m1", Num(10), Num(6), "BUY"),
      TimedTrade("late", MaxTime + 1, "m1", Num(10), Num(6), "SELL"),
      TimedTrade("bad", MaxTime, "m1", NotANumber, Num(6), "BUY") }

\* the pages get_trades returns to a poll (line 137): no page lists a
\* trade twice
PollPages ==
    {page \in SeqsUpTo(PollFeed, MaxPage) :
        \A j, k \in DOMAIN page : page[j] = page[k] => j = k}

\* what get_trades does: it raises (lines 46-52 of data_api.py, or the
\* transport) or returns a page
FeedResponses ==
    {[failed |-> TRUE, page |-> <<>>]} \cup
    {[failed |-> FALSE, page |-> page] : page \in PollPages}

\* int(time.time()) when the clock of the model shows 0: the clock of the
\* model counts the seconds from an instant after 1970
Epoch == 1

\* data_api.py lines 129-147: the query of get_trades; line 140 leaves
\* out a from_timestamp of 0
get_trades_params(user, from_timestamp, limit) ==
    [limit |-> limit, offset |-> 0, user |-> user,
     from |-> IF Epoch + from_timestamp /= 0
              THEN [sent |-> TRUE, v |-> from_timestamp]
              ELSE [sent |-> FALSE, v |-> 0]]

\* line 134
last_checked_of(w) ==
    IF w \in DOMAIN last_checked_trades
    THEN last_checked_trades[w]
    ELSE now - DefaultLookback

\* line 149: trade.get('timestamp', 0)
TimestampOf(trade) ==
    IF "timestamp" \in DOMAIN trade THEN trade.timestamp ELSE 0

\* a filter that compares with the watermark line 144 has just written
NewSince_Written(page, last_checked) ==
    SelectSeq(page, LAMBDA trade : TimestampOf(trade) > now)

\* lines 147-150
NewSince(page, last_checked) ==
    SelectSeq(page, LAMBDA trade : TimestampOf(trade) > last_checked)

\* a poll that moves the watermark although get_trades raised
WatermarkAfter_Always(w, resp) == PutKey(last_checked_trades, w, now)

\* lines 137-144: the watermark after the call of get_trades
WatermarkAfter(w, resp) ==
    IF resp.failed
    THEN last_checked_trades
    ELSE PutKey(last_checked_trades, w, now)

\* lines 121-152 for the response resp of get_trades
check_for_new_trades(w, resp) ==
    IF w \notin DOMAIN following
    THEN [raised |-> FALSE, requested |-> FALSE,
          last_checked_trades |-> last_checked_trades,
          new_trades |-> <<>>]
    ELSE [raised |-> resp.failed, requested |-> TRUE,
          params |-> get_trades_params(w, last_checked_of(w), PageLimit),
          last_checked_trades |-> WatermarkAfter(w, resp),
          new_trades |-> IF resp.failed THEN <<>>
                         ELSE NewSince(resp.page, last_checked_of(w))]

\* a loop whose try statement is around the while loop: an exception ends
\* the thread
HandlerNext_Return == "done"

\* lines 312-314: the handler inside the while loop prints, sleeps and
\* lets the loop go on
HandlerNext == "sleep"

\* lines 292-296 and 312-314: one call of check_for_new_trades by thread
\* i; when it raises the handler of line 312 takes the thread to its sleep
MonitorFetch(i, resp) ==
    LET w == threads[i].wallet
        r == check_for_new_trades(w, resp)
    IN  /\ threads[i].pc = "poll"
        /\ last_checked_trades' = r.last_checked_trades
        /\ threads' = [threads EXCEPT
                          ![i].new_trades = r.new_trades,
                          ![i].pc = IF r.raised THEN HandlerNext
                                    ELSE IF r.new_trades = <<>>
                                    THEN "sleep" ELSE "copy",
                          ![i].caught = IF r.raised THEN "get_trades"
                                        ELSE @]
        /\ cop' = [op |-> "poll", thread |-> i, wallet |-> w,
                   response |-> resp, result |-> r,
                   last_checked |-> last_checked_of(w)]
        /\ UNCHANGED <<following, now, orders, listed, calls, active_monitors,
                       starting, whaleVars>>

\* a loop that hands every result to the callback
CallbackWanted_Any(reply) == TRUE

\* line 300: result and result.get('success')
CallbackWanted(reply) ==
    /\ reply /= ReturnsNone
    /\ reply.success

\* a loop that hands the trader's trade to the callback
CallbackArg_Trade(outcome) == outcome.trade

\* line 306: callback(result)
CallbackArg(outcome) == outcome.reply

\* a loop that gives up the cycle at the first failed order
KeepsGoing_UntilFailure(raised, reply) ==
    /\ ~raised
    /\ (reply /= ReturnsNone => reply.success)

\* lines 297-308 and 312: the for loop goes on to the next trade unless an
\* exception took the thread to the handler of line 312
KeepsGoing(raised, reply) == ~raised

\* a loop that starts with the last trade of the page
NextCandidate_Last(new_trades) == new_trades[Len(new_trades)]

\* line 296: for trade in new_trades takes the trades in list order
NextCandidate(new_trades) == Head(new_trades)

\* lines 297-308 and 312-314: thread i hands the next of its new trades to
\* copy_trade and, after a success, the result to its callback; order_ok
\* and callback_ok say whether place_order and the callback return or raise
MonitorCopy(i, order_ok, callback_ok) ==
    LET w == threads[i].wallet
        trade == NextCandidate(threads[i].new_trades)
        r == copy_trade(following, Len(orders), w, trade, order_ok)
        reply == r.outcome.reply
        invoked == /\ ~r.outcome.raised
                   /\ CallbackWanted(reply)
                   /\ threads[i].callback /= "None"
        raised == r.outcome.raised \/ (invoked /\ ~callback_ok)
        rest == IF KeepsGoing(raised, reply)
                THEN Tail(threads[i].new_trades) ELSE <<>>
    IN  /\ threads[i].pc = "copy"
        /\ Len(orders) < MaxCopies
        /\ invoked \/ callback_ok
        /\ following' = r.following
        /\ orders' = orders \o r.placed
        /\ threads' = [threads EXCEPT
                          ![i].new_trades = rest,
                          ![i].pc = IF raised THEN HandlerNext
                                    ELSE IF rest = <<>>
                                    THEN "sleep" ELSE "copy",
                          ![i].called = IF invoked THEN @ + 1 ELSE @,
                          ![i].caught = IF r.outcome.raised
                                        THEN "copy_trade"
                                        ELSE IF raised THEN "callback"
                                        ELSE @]
        /\ cop' = [r.outcome EXCEPT !.op = "loop"] @@
                  [thread |-> i, called |-> invoked, escaped |-> raised,
                   arg |-> IF invoked THEN CallbackArg(r.outcome)
                           ELSE ReturnsNone]
        /\ UNCHANGED <<last_checked_trades, now, listed, calls,
                       active_monitors, starting, whaleVars>>

\* lines 310 and 314: time.sleep(check_interval) returns
MonitorSleep(i) ==
    /\ threads[i].pc = "sleep"
    /\ threads' = [threads EXCEPT ![i].pc = "test"]
    /\ cop' = MonitorStep(i)
    /\ UNCHANGED <<following, last_checked_trades, now, orders, listed, calls,
                   active_monitors, starting, whaleVars>>

\* get_trades returns no trade, or one trade newer than the clock
WorkerResponses ==
    {resp \in FeedResponses :
        /\ ~resp.failed
        /\ Len(resp.page) <= 1
        /\ \A k \in DOMAIN resp.page :
              TimestampOf(resp.page[k]) > MaxTime}

NextWorkers ==
    \/ \E w \in Wallets : FollowTrader(w, <<>>, now)
    \/ \E w \in Wallets : UnfollowTrader(w)
    \/ \E w \in Wallets : StartMonitoring(w, "None")
    \/ \E w \in Wallets : StopMonitoring(w)
    \/ \E i \in DOMAIN threads : MonitorTest(i)
    \/ \E i \in DOMAIN threads, resp \in WorkerResponses :
          MonitorFetch(i, resp)
    \/ \E i \in DOMAIN threads, order_ok \in BOOLEAN :
          MonitorCopy(i, order_ok, TRUE)
    \/ \E i \in DOMAIN threads : MonitorSleep(i)

SpecWorkers == InitCopy /\ [][NextWorkers]_vars

\* C17: in every reachable state, under any interleaving of follow,
\* unfollow, start_monitoring, stop_monitoring and the steps of the
\* monitor_trader threads, each wallet has at most one record in the
\* registry and at most one running monitor_trader thread.
C17_OneRecordOneWorker ==
    \A w \in Wallets :
        /\ Cardinality({k \in DOMAIN following :
                          following[k].trader_wallet = w}) <= 1
        /\ Cardinality(Running(w)) <= 1

\* the registry calls of one caller, with monitor threads started and not
\* yet scheduled
NextHandles ==
    \/ \E w \in Wallets : FollowTrader(w, <<>>, now)
    \/ \E w \in Wallets : UnfollowTrader(w)
    \/ \E w \in Wallets, trade \in RegistryFeed, order_ok \in BOOLEAN :
          CopyTrade(w, trade, order_ok)
    \/ \E w \in Wallets : StartMonitoring(w, "None")
    \/ \E w \in Wallets : StopMonitoring(w)

SpecHandles == InitCopy /\ [][NextHandles]_vars

\* C15: unfollow_trader on a followed wallet removes its record and its
\* watermark and returns the counters the record had; on a wallet without
\* a record it reports failure and leaves the registry, the watermarks and
\* the monitor handles as they were; either way the records and watermarks
\* of the other wallets are unchanged.
C15_Unfollow ==
    [][(cop'.op = "unfollow" /\ now' = now) =>
         LET w == cop'.wallet
         IN  /\ w \notin DOMAIN following'
             /\ w \notin DOMAIN last_checked_trades'
             /\ IF w \in DOMAIN following
                THEN /\ cop'.success
                     /\ cop'.total_copied_trades =
                          following[w].total_copied_trades
                     /\ cop'.total_volume_copied =
                          following[w].total_volume_copied
                ELSE /\ ~cop'.success
                     /\ following' = following
                     /\ last_checked_trades' = last_checked_trades
             /\ following' = DelKey(following, w)
             /\ last_checked_trades' = DelKey(last_checked_trades, w)
             /\ active_monitors' = active_monitors
             /\ threads' = threads
             /\ orders' = orders]_vars

\* a monitored wallet with a copied trade is unfollowed while the other
\* one stays
C15_Witness ==
    /\ cop.op = "unfollow" /\ cop.success
    /\ cop.total_copied_trades = 1
    /\ cop.total_volume_copied > 0
    /\ cop.wallet \notin DOMAIN following
    /\ cop.wallet \notin DOMAIN last_checked_trades
    /\ cop.wallet \in DOMAIN active_monitors
    /\ DOMAIN following /= {}

----------------------------------------------------------------------------
(* copy_trade, step by step of its caller *)

\* the step just taken is a call copy_trade(w, trade) that returned
CopyTradeCalled(w, trade) ==
    /\ cop'.op = "copy"
    /\ cop'.wallet = w
    /\ cop'.trade = trade
    /\ ~cop'.raised

\* C18: while a record is alive (from a follow_trader to the next
\* unfollow_trader or follow_trader of the wallet) its total_copied_trades
\* and total_volume_copied never decrease, whatever copy_trade does.
C18_CountersMonotone ==
    [][\A w \in Wallets :
         (/\ w \in DOMAIN following
          /\ w \in DOMAIN following'
          /\ ~(cop'.op = "follow" /\ cop'.wallet = w)) =>
            /\ following'[w].total_copied_trades
                 >= following[w].total_copied_trades
            /\ following'[w].total_volume_copied
                 >= following[w].total_volume_copied
            /\ following'[w].started_at = following[w].started_at]_vars

\* a record that has counted a trade, beside a record that has not
C18_Witness ==
    /\ cop.op = "copy"
    /\ DOMAIN following = Wallets
    /\ following[cop.wallet].total_copied_trades = 1
    /\ following[cop.wallet].total_volume_copied > 0
    /\ \E v \in Wallets \ {cop.wallet} :
          following[v].total_copied_trades = 0

\* C19: copy_trade returns None, calls place_order not at all and leaves
\* the counters as they were when the wallet has no record, when
\* should_copy_trade is False (min_trader_confidence 50 against a notional
\* of 40, say), and when the copy size is 0 or less.
C19_RejectedTradeNoEffect ==
    [][\A w \in Wallets, trade \in CopyFeed :
         (/\ CopyTradeCalled(w, trade)
          /\ \/ w \notin DOMAIN following
             \/ should_copy_trade(trade, following[w].settings)
                  = Returns(FALSE)
             \/ calculate_copy_size(trade, following[w].settings) <= 0) =>
            /\ cop'.result = "None"
            /\ cop'.reply = ReturnsNone
            /\ ~cop'.submitted
            /\ orders' = orders
            /\ following' = following]_vars

\* min_trader_confidence 50 meets a trade of notional 40
C19_Witness ==
    /\ cop.op = "copy" /\ cop.followed
    /\ cop.settings.min_trader_confidence = 50
    /\ Numeric(cop.trade) /\ Notional(cop.trade) = 40
    /\ cop.result = "None"
    /\ orders = <<>>
    /\ following[cop.wallet].total_copied_trades = 0

\* C20: for a trade it approves, copy_trade calls place_order exactly once,
\* with token_id = the trade's asset, price = the trade's price, size = the
\* copy size and side = the trade's side (BUY or SELL); when place_order
\* returns, the wallet's record has total_copied_trades one higher and
\* total_volume_copied higher by copy size * price, and the value returned
\* holds success, the order response, the trade and the copy size.
C20_ApprovedTradeOneOrder ==
    [][\A w \in Wallets, trade \in CopyFeed :
         (/\ CopyTradeCalled(w, trade)
          /\ w \in DOMAIN following
          /\ should_copy_trade(trade, following[w].settings) = Returns(TRUE)
          /\ calculate_copy_size(trade, following[w].settings) > 0) =>
            LET copy_size ==
                    calculate_copy_size(trade, following[w].settings)
                placed == orders'[Len(orders')]
            IN  /\ Len(orders') = Len(orders) + 1
                /\ SubSeq(orders', 1, Len(orders)) = orders
                /\ placed.wallet = w
                /\ placed.args.token_id = trade.asset
                /\ placed.args.price = trade.price.v
                /\ placed.args.size = copy_size
                /\ trade.side \in {"BUY", "SELL"} =>
                      placed.args.side = trade.side
                /\ placed.ok =>
                      /\ following' =
                           [following EXCEPT
                              ![w].total_copied_trades = @ + 1,
                              ![w].total_volume_copied =
                                  @ + copy_size * trade.price.v]
                      /\ cop'.reply =
                           [success |-> TRUE,
                            order |-> OrderResponse(Len(orders')),
                            copied_from |-> w,
                            original_trade |-> trade,
                            copy_size |-> copy_size]]_vars

\* a trade of size 10 copied at 1000 percent is cut to max_position_size 5
C20_Witness ==
    /\ cop.op = "copy" /\ cop.result = "success"
    /\ cop.settings.copy_percentage = 1000
    /\ cop.settings.max_position_size = 5
    /\ cop.reply.copy_size = 5 * 100
    /\ cop.trade.side = "BUY"
    /\ Len(orders) = 1 /\ orders[1].args.size = 5 * 100
    /\ following[cop.wallet].total_copied_trades = 1
    /\ following[cop.wallet].total_volume_copied
         = 5 * 100 * cop.trade.price.v

----------------------------------------------------------------------------
(* the monitor loop of one wallet: failures and the callback *)

Callbacks == {"None", "set"}

NextLoop ==
    \/ FollowTrader("w1", <<>>, now)
    \/ UnfollowTrader("w1")
    \/ \E cb \in Callbacks : StartMonitoring("w1", cb)
    \/ \E i \in DOMAIN threads : MonitorTest(i)
    \/ \E i \in DOMAIN threads, resp \in FeedResponses :
          MonitorFetch(i, resp)
    \/ \E i \in DOMAIN threads, order_ok \in BOOLEAN,
          callback_ok \in BOOLEAN : MonitorCopy(i, order_ok, callback_ok)
    \/ \E i \in DOMAIN threads : MonitorSleep(i)

SpecLoop == InitCopy /\ [][NextLoop]_vars

\* thread i has just handed a trade to copy_trade (lines 297-308)
LoopCopied(i) ==
    /\ i \in DOMAIN threads
    /\ threads[i].pc = "copy"
    /\ threads'[i] /= threads[i]

\* C21: when place_order raises, copy_trade returns a failure result with
\* the error and the original trade instead of raising, leaves
\* total_copied_trades and total_volume_copied as they were and has called
\* place_order exactly once; and no later poll submits that trade again.
C21_FailureNotRetried ==
    [][\A i \in DOMAIN threads : LoopCopied(i) =>
         /\ cop'.result = "failure" =>
              /\ ~cop'.raised /\ ~cop'.escaped
              /\ cop'.reply = [success |-> FALSE,
                               error |-> PlaceOrderError,
                               copied_from |-> threads[i].wallet,
                               original_trade |-> cop'.trade]
              /\ cop'.trade = Head(threads[i].new_trades)
              /\ following' = following
              /\ Len(orders') = Len(orders) + 1
              /\ ~orders'[Len(orders')].ok
         /\ \A k \in DOMAIN orders, j \in DOMAIN orders' \ DOMAIN orders :
              ~orders[k].ok =>
                  ~(/\ orders'[j].wallet = orders[k].wallet
                    /\ orders'[j].trade = orders[k].trade)]_vars

----------------------------------------------------------------------------
(* start_monitoring called from two threads *)

Callers == {"c1", "c2"}

NextStart ==
    \/ \E w \in Wallets : FollowTrader(w, <<>>, now)
    \/ \E w \in Wallets : UnfollowTrader(w)
    \/ \E c \in Callers, w \in Wallets : StartCheck(c, w, "None")
    \/ \E c \in Callers : StartLaunch(c)
    \/ \E w \in Wallets : StopMonitoring(w)

SpecStart == InitCopy /\ [][NextStart]_vars

\* C22: start_monitoring on a wallet without a record raises and creates
\* neither a handle nor a thread; start_monitoring on a wallet that has a
\* handle starts no thread, also when two calls for the wallet run at the
\* same time.
C22_StartMonitoring ==
    [][/\ (cop'.op = "start" /\ cop'.raised /\ starting' = starting) =>
            /\ threads' = threads
            /\ active_monitors' = active_monitors
       /\ \A c \in DOMAIN starting' \ DOMAIN starting :
            /\ starting'[c].wallet \in DOMAIN following
            /\ starting'[c].wallet \notin DOMAIN active_monitors
       /\ Len(threads') > Len(threads) =>
            threads'[Len(threads')].wallet \notin DOMAIN active_monitors]_vars

----------------------------------------------------------------------------
(* stopping a monitor thread, under fair scheduling of the threads *)

\* the feed has MaxCopies new trades to offer in all
FeedOffers(resp) ==
    resp.page /= <<>> =>
        Len(orders) + Cardinality({j \in DOMAIN threads :
                                      threads[j].pc = "copy"}) < MaxCopies

\* a step of the monitor_trader thread i (lines 291-314)
MonitorRun(i) ==
    /\ i \in DOMAIN threads
    /\ \/ MonitorTest(i)
       \/ \E resp \in WorkerResponses :
             FeedOffers(resp) /\ MonitorFetch(i, resp)
       \/ \E order_ok \in BOOLEAN : MonitorCopy(i, order_ok, TRUE)
       \/ MonitorSleep(i)

NextStop ==
    \/ FollowTrader("w1", <<>>, now)
    \/ UnfollowTrader("w1")
    \/ StartMonitoring("w1", "None")
    \/ StopMonitoring("w1")
    \/ \E i \in 1..MaxThreads : MonitorRun(i)

\* every thread that can take a step is scheduled in the end; get_trades
\* and time.sleep return
SpecStop ==
    /\ InitCopy
    /\ [][NextStop]_vars
    /\ \A i \in 1..MaxThreads : WF_vars(MonitorRun(i))

\* C23: stop_monitoring acts as unfollow_trader, so after it the wallet
\* has no record; and every monitor_trader thread whose wallet has been
\* stopped or unfollowed returns in the end, whatever is called afterwards.
C23_StoppedWorkerTerminates ==
    /\ [](cop.op = "stop" /\ cop.stopped =>
             cop.wallet \notin DOMAIN following)
    /\ \A i \in 1..MaxThreads :
          (/\ i \in DOMAIN threads
           /\ threads[i].pc /= "done"
           /\ threads[i].wallet \notin DOMAIN following)
             ~> (i \in DOMAIN threads /\ threads[i].pc = "done")

----------------------------------------------------------------------------
(* the monitor loop and exceptions *)

\* thread i has just taken a step in which an exception reached the
\* handler of line 312
LoopCaught(i) ==
    /\ threads'[i] /= threads[i]
    /\ \/ threads[i].pc = "poll" /\ cop'.result.raised
       \/ threads[i].pc = "copy" /\ cop'.escaped

\* C24: a monitor_trader thread never returns because of a failure: an
\* exception raised by get_trades, by the evaluation of a trade, by
\* place_order or by the callback is caught, the thread sleeps and then
\* tests its loop condition again; it returns only from that test, when
\* the wallet is not in the registry.
C24_LoopSurvivesFailures ==
    [][\A i \in DOMAIN threads :
         /\ (threads[i].pc /= "done" /\ threads'[i].pc = "done") =>
               /\ threads[i].pc = "test"
               /\ threads[i].wallet \notin DOMAIN following
         /\ LoopCaught(i) => threads'[i].pc = "sleep"
         /\ (threads[i].pc = "sleep" /\ threads'[i] /= threads[i]) =>
               threads'[i].pc = "test"
         /\ (/\ threads[i].pc = "test" /\ threads'[i] /= threads[i]
             /\ threads[i].wallet \in DOMAIN following) =>
               threads'[i].pc = "poll"]_vars

\* a thread whose callback raised after a copied trade is in a later
\* cycle, with new trades to hand to copy_trade
C24_Witness ==
    \E i \in DOMAIN threads :
        /\ threads[i].caught = "callback"
        /\ threads[i].called = 1
        /\ threads[i].pc = "copy"
        /\ cop.op = "poll" /\ cop.thread = i /\ ~cop.result.raised
        /\ Len(orders) = 1

----------------------------------------------------------------------------
(* the polls of one wallet, with the clock *)

NextPoll ==
    \/ FollowTrader("w1", <<>>, now)
    \/ UnfollowTrader("w1")
    \/ StartMonitoring("w1", "None")
    \/ \E i \in DOMAIN threads : MonitorTest(i)
    \/ \E i \in DOMAIN threads, resp \in FeedResponses :
          MonitorFetch(i, resp)
    \/ \E i \in DOMAIN threads, order_ok \in BOOLEAN :
          MonitorCopy(i, order_ok, TRUE)
    \/ \E i \in DOMAIN threads : MonitorSleep(i)
    \/ Tick

SpecPoll == InitCopy /\ [][NextPoll]_vars

\* thread i has just returned from check_for_new_trades (line 294) or
\* left it by an exception
LoopPolled(i) ==
    /\ i \in DOMAIN threads
    /\ threads[i].pc = "poll"
    /\ threads'[i] /= threads[i]

\* C28: when get_trades raises in a poll, no trade is handed to
\* copy_trade, no counter changes, the thread goes to its sleep and its
\* next cycle, and the watermark of the wallet stays where the last poll
\* that succeeded put it; so the next poll that succeeds takes every trade
\* of its page that is newer than that watermark, the ones made during the
\* outage included.
C28_FeedFailureKeepsWatermark ==
    [][\A i \in DOMAIN threads : LoopPolled(i) =>
         LET w == threads[i].wallet
         IN  /\ cop'.result.raised =>
                   /\ last_checked_trades' = last_checked_trades
                   /\ following' = following
                   /\ orders' = orders
                   /\ threads'[i].new_trades = <<>>
                   /\ threads'[i].pc = "sleep"
             /\ (~cop'.result.raised /\ w \in DOMAIN following) =>
                   /\ w \in DOMAIN last_checked_trades
                   /\ \A k \in DOMAIN cop'.response.page :
                        LET trade == cop'.response.page[k]
                        IN  trade.timestamp > last_checked_trades[w] =>
                              \E j \in DOMAIN threads'[i].new_trades :
                                  threads'[i].new_trades[j] = trade]_vars

\* a poll failed, the clock moved on, and the next poll has fetched a
\* trade made after the watermark of the last poll that succeeded
C28_Witness ==
    \E i \in DOMAIN threads :
        /\ threads[i].caught = "get_trades"
        /\ cop.op = "poll" /\ cop.thread = i /\ ~cop.result.raised
        /\ threads[i].pc = "copy"
        /\ cop.last_checked < now
        /\ \E k \in DOMAIN threads[i].new_trades :
              /\ threads[i].new_trades[k].timestamp > cop.last_checked
              /\ threads[i].new_trades[k].timestamp <= now

\* C29: a poll of a followed wallet asks get_trades for the trades of the
\* wallet from the wallet's watermark on, 50 at most, sets the watermark
\* to the current time when get_trades has returned, and takes as new the
\* trades of the page that are newer than the watermark it read before the
\* call, not the one it has just written.
C29_PollUsesOldWatermark ==
    [][\A i \in DOMAIN threads :
         (/\ LoopPolled(i)
          /\ threads[i].wallet \in DOMAIN following
          /\ ~cop'.result.raised) =>
            LET w == threads[i].wallet
                old == last_checked_trades[w]
                page == cop'.response.page
            IN  /\ cop'.result.params =
                     [limit |-> 50, offset |-> 0, user |-> w,
                      from |-> [sent |-> TRUE, v |-> old]]
                /\ last_checked_trades' =
                     [last_checked_trades EXCEPT ![w] = now]
                /\ threads'[i].new_trades =
                     SelectSeq(page, LAMBDA trade : trade.timestamp > old)
                /\ now' = now]_vars

\* the clock has moved since the watermark was written, and the poll keeps
\* a trade that is newer than the old watermark and not newer than the one
\* just written
C29_Witness ==
    \E i \in DOMAIN threads :
        /\ cop.op = "poll" /\ cop.thread = i /\ ~cop.result.raised
        /\ cop.result.requested
        /\ cop.last_checked < now
        /\ last_checked_trades[cop.wallet] = now
        /\ threads[i].pc = "copy"
        /\ \E k \in DOMAIN threads[i].new_trades :
              /\ threads[i].new_trades[k].timestamp > cop.last_checked
              /\ threads[i].new_trades[k].timestamp <= now

\* C30: in the loop of a monitor_trader thread the callback is called
\* once, with the result, for each copy_trade call that returns a success
\* result, and is not called for None or for a failure result; after a
\* failure result the loop goes on with the rest of the new trades.
C30_CallbackOncePerSuccess ==
    [][\A i \in DOMAIN threads :
         IF LoopCopied(i)
         THEN /\ cop'.called <=>
                    (cop'.result = "success" /\ threads[i].callback = "set")
              /\ threads'[i].called =
                    threads[i].called + (IF cop'.called THEN 1 ELSE 0)
              /\ cop'.called =>
                    /\ cop'.arg = cop'.reply
                    /\ cop'.arg.success
                    /\ cop'.arg.original_trade = Head(threads[i].new_trades)
              /\ cop'.result \in {"None", "failure"} =>
                    /\ ~cop'.called
                    /\ threads'[i].new_trades = Tail(threads[i].new_trades)
                    /\ threads'[i].new_trades /= <<>> =>
                          threads'[i].pc = "copy"
         ELSE threads'[i].called = threads[i].called]_vars

\* a thread whose callback was called for a copied trade has had a failure
\* result in a later cycle and goes on with the trade after it
C30_Witness ==
    \E i \in DOMAIN threads :
        /\ cop.op = "loop" /\ cop.thread = i
        /\ cop.result = "failure" /\ ~cop.called
        /\ threads[i].callback = "set"
        /\ threads[i].called = 1
        /\ threads[i].pc = "copy"
        /\ threads[i].new_trades /= <<>>
        /\ Len(orders) = 2 /\ orders[1].ok /\ ~orders[2].ok

----------------------------------------------------------------------------
(* get_copy_trade_performance *)

\* the quotient n / d of two numbers, kept as a fraction; Python raises
\* ZeroDivisionError when d is 0
Ratio(n, d) == [raised |-> d = 0, num |-> n, den |-> d]

\* a snapshot that divides whenever the duration is not negative
DurationPositive_OrZero(duration_seconds) == duration_seconds >= 0

\* lines 379 and 393: duration_days > 0
DurationPositive(duration_seconds) ==
    Ratio(duration_seconds, SecondsPerDay).num > 0

\* lines 387-390
avg_volume_per_trade(record) ==
    IF record.total_copied_trades > 0
    THEN Ratio(record.total_volume_copied, record.total_copied_trades)
    ELSE Ratio(0, 1)

\* lines 391-394: total_copied_trades / (duration_seconds / 86400)
trades_per_day(record, duration_seconds) ==
    IF DurationPositive(duration_seconds)
    THEN Ratio(record.total_copied_trades * SecondsPerDay, duration_seconds)
    ELSE Ratio(0, 1)

\* lines 370-396: the dict get_copy_trade_performance returns
get_copy_trade_performance(w) ==
    IF w \notin DOMAIN following
    THEN [op |-> "performance", wallet |-> w, error |-> TRUE]
    ELSE LET record == following[w]
             duration_seconds == now - record.started_at
         IN  [op |-> "performance", wallet |-> w, error |-> FALSE,
              following_since |-> record.started_at,
              duration_seconds |-> duration_seconds,
              total_copied_trades |-> record.total_copied_trades,
              total_volume_copied |-> record.total_volume_copied,
              avg_volume_per_trade |-> avg_volume_per_trade(record),
              trades_per_day |-> trades_per_day(record, duration_seconds),
              settings |-> record.settings]

\* lines 360-396
GetCopyTradePerformance(w) ==
    /\ cop' = get_copy_trade_performance(w)
    /\ UNCHANGED <<following, last_checked_trades, now, orders, listed, calls,
                   threadVars, whaleVars>>

NextPerformance ==
    \/ \E w \in Wallets : FollowTrader(w, <<>>, now)
    \/ \E w \in Wallets : UnfollowTrader(w)
    \/ \E w \in Wallets, trade \in RegistryFeed, order_ok \in BOOLEAN :
          CopyTrade(w, trade, order_ok)
    \/ \E w \in Wallets : GetCopyTradePerformance(w)
    \/ Tick

SpecPerformance == InitCopy /\ [][NextPerformance]_vars

\* C25: get_copy_trade_performance returns the error "Not following" for a
\* wallet without a record; for a followed wallet it returns
\* avg_volume_per_trade 0 when no trade was copied and trades_per_day 0
\* when the duration is not positive, so it never divides by zero, also in
\* the second of the follow; and it changes neither the registry nor the
\* watermarks nor the counters.
C25_PerformanceSnapshot ==
    [][(cop'.op = "performance" /\ now' = now) =>
         LET w == cop'.wallet
         IN  /\ cop'.error <=> w \notin DOMAIN following
             /\ ~cop'.error =>
                  /\ ~cop'.avg_volume_per_trade.raised
                  /\ ~cop'.trades_per_day.raised
                  /\ following[w].total_copied_trades = 0 =>
                        cop'.avg_volume_per_trade.num = 0
                  /\ now - following[w].started_at <= 0 =>
                        cop'.trades_per_day.num = 0
                  /\ following[w].total_copied_trades > 0 =>
                        cop'.avg_volume_per_trade =
                            Ratio(following[w].total_volume_copied,
                                  following[w].total_copied_trades)
                  /\ now - following[w].started_at > 0 =>
                        cop'.trades_per_day =
                            Ratio(following[w].total_copied_trades * 86400,
                                  now - following[w].started_at)
             /\ following' = following
             /\ last_checked_trades' = last_checked_trades
             /\ orders' = orders
             /\ threads' = threads /\ active_monitors' = active_monitors]_vars

\* a snapshot taken in the second of the follow, after a trade was copied
C25_Witness ==
    /\ cop.op = "performance" /\ ~cop.error
    /\ cop.duration_seconds = 0
    /\ cop.total_copied_trades = 1
    /\ cop.trades_per_day = Ratio(0, 1)
    /\ cop.avg_volume_per_trade.num > 0
    /\ cop.wallet \in DOMAIN following
    /\ following[cop.wallet].started_at = now

----------------------------------------------------------------------------
(* malformed numbers in a trade record *)

\* C26: a size or price that is missing, not a number or null counts as
\* zero and raises nothing, so check_for_new_whales returns and every
\* record of the batch that has a hash is processed, the ones after a
\* malformed record included.
C26_MalformedCountsAsZero ==
    last.op = "check" =>
        /\ ~last.raised
        /\ \A k \in DOMAIN last.trades :
              last.trades[k].transactionHash /= "" =>
                  last.trades[k].transactionHash \in seen_transactions

----------------------------------------------------------------------------
(* process_trade as a function of the raw trade *)

\* a field of a raw trade: missing, or present with a text
Missing == [present |-> FALSE, text |-> NoText]
Given(text) == [present |-> TRUE, text |-> text]

WithKey(trade, key, field) ==
    IF field.present THEN trade @@ (key :> field.text) ELSE trade

\* raw trades with and without name, pseudonym and proxyWallet; the
\* wallets are a long one and one shorter than the abbreviation
NameFields == {Missing, Given(NoText), Given(<<"A", "l">>)}
PseudonymFields == {Missing, Given(NoText), Given(<<"P", "s">>)}
WalletFields ==
    {Missing, Given(<<"0", "x">>),
     Given(<<"0", "x", "1", "2", "3", "4", "5", "6", "7", "8", "9", "a">>)}

NamedFeed ==
    { WithKey(WithKey(WithKey(RawTrade("t", Num(1), sz, pr),
                              "name", n), "pseudonym", p), "proxyWallet", w) :
        n \in NameFields, p \in PseudonymFields, w \in WalletFields,
        sz \in {Num(0), Num(2), NotANumber}, pr \in {Num(3), NotANumber} }

\* a call of process_trade (lines 61-117)
ProcessTrade(trade) ==
    /\ last' = [op |-> "process", trade |-> trade,
                raised |-> process_trade_raises(trade),
                whale |-> IF process_trade_raises(trade)
                          THEN <<>> ELSE process_trade(trade)]
    /\ UNCHANGED <<seen_transactions, whale_trades, max_history, processed,
                   returned, mon, callback, wk, copyVars>>

NextConvert == \E trade \in NamedFeed : ProcessTrade(trade)

SpecConvert == InitCopy /\ [][NextConvert]_vars

\* the name the fallback order name, pseudonym, abbreviated wallet gives
NameByFallback(trade) ==
    IF Get(trade, "name", NoText) /= NoText THEN trade.name
    ELSE IF Get(trade, "pseudonym", NoText) /= NoText THEN trade.pseudonym
    ELSE IF "proxyWallet" \in DOMAIN trade THEN Abbreviated(trade.proxyWallet)
    ELSE Unknown

\* C27: the whale trade process_trade derives has value = size * price,
\* and its trader name is the name of the raw trade when it has one, else
\* its pseudonym, else its abbreviated wallet; the name is used whenever
\* it is present, whether or not the raw trade has a wallet.
C27_ValueAndTraderName ==
    (last.op = "process" /\ ~last.raised) =>
        /\ last.whale.value = last.trade.size.v * last.trade.price.v
        /\ last.whale.trader = NameByFallback(last.trade)

----------------------------------------------------------------------------
(* the order of the work of one monitor_trader thread *)

\* t is a subsequence of s that keeps the order of s
RECURSIVE InOrderOf(_, _)
InOrderOf(t, s) ==
    IF t = <<>> THEN TRUE
    ELSE IF s = <<>> THEN FALSE
    ELSE IF Head(t) = Head(s) THEN InOrderOf(Tail(t), Tail(s))
    ELSE InOrderOf(t, Tail(s))

\* C31: a monitor_trader thread handles its new trades in the order of the
\* page: the trade it hands to copy_trade (order and callback) is always
\* the first of those still waiting, the ones after it keep their order,
\* and it fetches the next page only when none of the last page is waiting.
C31_FeedOrder ==
    [][\A i \in DOMAIN threads :
         /\ LoopCopied(i) =>
              /\ cop'.trade = Head(threads[i].new_trades)
              /\ \A k \in DOMAIN orders' \ DOMAIN orders :
                    orders'[k].trade = Head(threads[i].new_trades)
              /\ cop'.called =>
                    cop'.arg.original_trade = Head(threads[i].new_trades)
              /\ threads'[i].new_trades \in
                    {Tail(threads[i].new_trades), <<>>}
         /\ LoopPolled(i) =>
              /\ threads[i].new_trades = <<>>
              /\ ~cop'.result.raised =>
                    InOrderOf(threads'[i].new_trades, cop'.response.page)
         /\ (~LoopCopied(i) /\ ~LoopPolled(i)) =>
              threads'[i].new_trades = threads[i].new_trades]_vars

\* the first of two new trades of a page has been submitted and the
\* second one is waiting
C31_Witness ==
    \E i \in DOMAIN threads :
        /\ cop.op = "loop" /\ cop.thread = i /\ cop.submitted
        /\ Len(orders) = 1 /\ orders[1].trade = cop.trade
        /\ threads[i].pc = "copy"
        /\ Len(threads[i].new_trades) = 1
        /\ threads[i].new_trades[1] /= cop.trade


----------------------------------------------------------------------------
(* copy_trade statement by statement: the monitor thread runs it while the
   owner of the object follows, unfollows and reads; no lock is taken
   anywhere in copy_trading.py *)

\* the dict that follow_data of call c names (line 228)
FollowData(c) == IF c.live THEN following[c.wallet] ELSE c.rec

\* lines 299-308 and 312: what thread i does with the result of its
\* copy_trade call
LoopAfter(i, call_raised, reply, callback_ok) ==
    LET invoked == /\ ~call_raised
                   /\ CallbackWanted(reply)
                   /\ threads[i].callback /= "None"
        raised == call_raised \/ (invoked /\ ~callback_ok)
        rest == IF KeepsGoing(raised, reply)
                THEN Tail(threads[i].new_trades) ELSE <<>>
    IN  [threads EXCEPT
            ![i].new_trades = rest,
            ![i].pc = IF raised THEN HandlerNext
                      ELSE IF rest = <<>> THEN "sleep" ELSE "copy",
            ![i].called = IF invoked THEN @ + 1 ELSE @,
            ![i].caught = IF call_raised THEN "copy_trade"
                          ELSE IF raised THEN "callback"
                          ELSE @]

\* what a statement of the copy_trade call of thread i leaves in cop
CallStep(i, line, trade) ==
    [op |-> "call", thread |-> i, wallet |-> threads[i].wallet,
     line |-> line, trade |-> trade]

\* lines 298 and 225: thread i calls copy_trade for its next candidate,
\* and copy_trade tests that the wallet is followed
CallTest(i) ==
    LET w == threads[i].wallet
        trade == NextCandidate(threads[i].new_trades)
    IN  /\ threads[i].pc = "copy"
        /\ i \notin DOMAIN calls
        /\ IF w \in DOMAIN following
           THEN /\ calls' = PutKey(calls, i,
                                   [pc |-> "alias", wallet |-> w,
                                    trade |-> trade, live |-> FALSE,
                                    rec |-> <<>>, copy_size |-> 0,
                                    since_follow |-> FALSE])
                /\ threads' = threads
           ELSE /\ calls' = calls
                /\ threads' = LoopAfter(i, FALSE, ReturnsNone, TRUE)
        /\ cop' = CallStep(i, 225, trade)
        /\ UNCHANGED <<following, last_checked_trades, now, orders, listed,
                       active_monitors, starting, whaleVars>>

\* lines 228-244: follow_data takes the dict of the registry (KeyError when
\* it is gone), then the call reads the settings of that dict and the
\* trade, which nothing else writes
CallAlias(i) ==
    LET c == calls[i]
        w == c.wallet
        settings == following[w].settings
        should == should_copy_trade(c.trade, settings)
        copy_size == calculate_copy_size(c.trade, settings)
    IN  /\ i \in DOMAIN calls
        /\ c.pc = "alias"
        /\ IF w \notin DOMAIN following
           THEN /\ calls' = DelKey(calls, i)
                /\ threads' = LoopAfter(i, TRUE, ReturnsNone, TRUE)
           ELSE IF should.raised
           THEN /\ calls' = DelKey(calls, i)
                /\ threads' = LoopAfter(i, TRUE, ReturnsNone, TRUE)
           ELSE IF ~should.value \/ SizeRejected(copy_size)
           THEN /\ calls' = DelKey(calls, i)
                /\ threads' = LoopAfter(i, FALSE, ReturnsNone, TRUE)
           ELSE /\ calls' = [calls EXCEPT ![i].pc = "place",
                                          ![i].live = TRUE,
                                          ![i].copy_size = copy_size]
                /\ threads' = threads
        /\ cop' = CallStep(i, 228, c.trade)
        /\ UNCHANGED <<following, last_checked_trades, now, orders, listed,
                       active_monitors, starting, whaleVars>>

\* lines 248-253, and lines 267-273 when place_order raises
CallPlace(i, order_ok) ==
    LET c == calls[i]
    IN  /\ i \in DOMAIN calls
        /\ c.pc = "place"
        /\ Len(orders) < MaxCopies
        /\ orders' = Append(orders,
                            [wallet |-> c.wallet, ok |-> order_ok,
                             enabled |-> FollowData(c).settings.enabled,
                             trade |-> c.trade,
                             args |-> PlaceOrderArgs(c.trade, c.copy_size)])
        /\ IF order_ok
           THEN /\ calls' = [calls EXCEPT
                               ![i].pc = "count",
                               ![i].since_follow =
                                   c.wallet \in DOMAIN following]
                /\ threads' = threads
           ELSE /\ calls' = DelKey(calls, i)
                /\ threads' = LoopAfter(i, FALSE,
                                        [success |-> FALSE,
                                         error |-> PlaceOrderError,
                                         copied_from |-> c.wallet,
                                         original_trade |-> c.trade],
                                        TRUE)
        /\ cop' = CallStep(i, 248, c.trade)
        /\ UNCHANGED <<following, last_checked_trades, now, listed,
                       active_monitors, starting, whaleVars>>

\* line 256
CallCount(i) ==
    LET c == calls[i]
    IN  /\ i \in DOMAIN calls
        /\ c.pc = "count"
        /\ IF c.live
           THEN /\ following' =
                      [following EXCEPT
                         ![c.wallet].total_copied_trades = TradesAfter(@)]
                /\ calls' = [calls EXCEPT ![i].pc = "volume"]
           ELSE /\ following' = following
                /\ calls' = [calls EXCEPT
                               ![i].pc = "volume",
                               ![i].rec.total_copied_trades =
                                   TradesAfter(@)]
        /\ cop' = CallStep(i, 256, c.trade)
        /\ UNCHANGED <<last_checked_trades, now, orders, listed, threadVars,
                       whaleVars>>

\* lines 257-265, and what the loop does with the result
CallVolume(i, callback_ok) ==
    LET c == calls[i]
    IN  /\ i \in DOMAIN calls
        /\ c.pc = "volume"
        /\ threads[i].callback /= "None" \/ callback_ok
        /\ following' =
              IF c.live
              THEN [following EXCEPT
                      ![c.wallet].total_volume_copied =
                          VolumeAfter(@, c.trade, c.copy_size)]
              ELSE following
        /\ calls' = DelKey(calls, i)
        /\ threads' = LoopAfter(i, FALSE,
                                [success |-> TRUE,
                                 order |-> OrderResponse(Len(orders)),
                                 copied_from |-> c.wallet,
                                 original_trade |-> c.trade,
                                 copy_size |-> c.copy_size],
                                callback_ok)
        /\ cop' = CallStep(i, 257, c.trade)
        /\ UNCHANGED <<last_checked_trades, now, orders, listed,
                       active_monitors, starting, whaleVars>>

NextSteps ==
    \/ FollowTrader("w1", <<>>, now)
    \/ UnfollowTrader("w1")
    \/ StartMonitoring("w1", "None")
    \/ GetCopyTradePerformance("w1")
    \/ \E i \in DOMAIN threads : MonitorTest(i)
    \/ \E i \in DOMAIN threads, resp \in FeedResponses :
          MonitorFetch(i, resp)
    \/ \E i \in DOMAIN threads : CallTest(i)
    \/ \E i \in DOMAIN threads : CallAlias(i)
    \/ \E i \in DOMAIN threads, order_ok \in BOOLEAN : CallPlace(i, order_ok)
    \/ \E i \in DOMAIN threads : CallCount(i)
    \/ \E i \in DOMAIN threads : CallVolume(i, TRUE)
    \/ \E i \in DOMAIN threads : MonitorSleep(i)

SpecSteps == InitCopy /\ [][NextSteps]_vars


\* the copy_trade calls that have added their copy to total_copied_trades
\* of the record of wallet w in the registry (line 256) and not yet its
\* volume to total_volume_copied (line 257)
HalfCounted(w) ==
    {i \in DOMAIN calls :
        /\ calls[i].wallet = w
        /\ calls[i].pc = "volume"
        /\ calls[i].live
        /\ calls[i].copy_size * calls[i].trade.price.v /= 0}

\* C32: the two counters of a record change together for a reader: the
\* snapshot get_copy_trade_performance returns never shows
\* total_copied_trades with a copy added whose volume is not yet in
\* total_volume_copied.
C32_CountersAtomic ==
    (cop.op = "performance" /\ ~cop.error) => HalfCounted(cop.wallet) = {}

\* C36: every order is placed for a wallet that is followed when
\* place_order is called: after unfollow_trader has returned, the monitor
\* thread of the wallet places no order for it.
C36_NoOrderAfterUnfollow ==
    [][Len(orders') > Len(orders) =>
         orders'[Len(orders')].wallet \in DOMAIN following]_vars

\* C40: a copy whose order was placed after the latest follow_trader of
\* its wallet adds 1 to total_copied_trades (line 256) and its volume to
\* total_volume_copied (line 257) of the record of the wallet, and the
\* counters of a record change at no other step.
C40_CountersMatchSubmissions ==
    [][\A w \in DOMAIN following \cap DOMAIN following' :
         LET counts == {i \in DOMAIN calls :
                          /\ calls[i].wallet = w /\ calls[i].pc = "count"
                          /\ i \in DOMAIN calls'
                          /\ calls'[i].pc = "volume"
                          /\ calls[i].since_follow}
             adds == {i \in DOMAIN calls :
                        /\ calls[i].wallet = w /\ calls[i].pc = "volume"
                        /\ i \notin DOMAIN calls'
                        /\ calls[i].since_follow}
         IN  cop'.op = "call" =>
               /\ following'[w].total_copied_trades =
                    following[w].total_copied_trades + Cardinality(counts)
               /\ \/ /\ adds = {}
                     /\ following'[w].total_volume_copied =
                          following[w].total_volume_copied
                  \/ \E i \in adds :
                       following'[w].total_volume_copied =
                          following[w].total_volume_copied
                            + calls[i].copy_size * calls[i].trade.price.v]_vars


----------------------------------------------------------------------------
(* the handles of active_monitors and the threads they name *)

\* C33: a wallet has a handle in active_monitors only while its
\* monitor_trader thread runs: once the thread has returned because the
\* record of the wallet is gone, after unfollow_trader as after
\* stop_monitoring, the wallet has no handle.
C33_HandleOnlyWhileRunning ==
    \A w \in DOMAIN active_monitors :
        threads[active_monitors[w]].pc /= "done"

\* C35: when start_monitoring returns without raising, a monitor_trader
\* thread of the wallet is running, whatever was called before.
C35_StartedMeansRunning ==
    (cop.op = "start" /\ ~cop.raised) => Running(cop.wallet) /= {}


----------------------------------------------------------------------------
(* the trades a wallet's polls hand to place_order *)

\* C37: over all the polls of a wallet, place_order is called at most once
\* for a trade of the feed, whatever the pages hold: no two orders are
\* placed for the same wallet and the same transaction.
C37_AtMostOneSubmission ==
    \A j, k \in DOMAIN orders :
        /\ orders[j].wallet = orders[k].wallet
        /\ orders[j].trade.transactionHash = orders[k].trade.transactionHash
        => j = k


\* C38: every candidate of a poll is handed to copy_trade in the cycle of
\* that poll: whatever happens while one candidate is handled, an
\* exception of copy_trade or of the callback included, the candidates
\* after it in the page are still to be handled.
C38_NoCandidateSkipped ==
    [][\A i \in DOMAIN threads : LoopCopied(i) =>
         threads'[i].new_trades = Tail(threads[i].new_trades)]_vars


----------------------------------------------------------------------------
(* check_for_new_trades statement by statement, while the owner of the
   object follows and unfollows the wallet *)

\* the locals of a check_for_new_trades call of wallet w
PollCall(w, pc, last_checked) ==
    [pc |-> pc, wallet |-> w, last_checked |-> last_checked,
     live |-> FALSE, rec |-> <<>>, since_follow |-> FALSE]

\* what a statement of the check_for_new_trades call of thread i leaves in
\* cop
PollStep(i, line) ==
    [op |-> "check", thread |-> i, wallet |-> threads[i].wallet,
     line |-> line]

\* lines 294 and 131-132: thread i calls check_for_new_trades, which tests
\* that the wallet is followed
PollTest(i) ==
    LET w == threads[i].wallet
    IN  /\ threads[i].pc = "poll"
        /\ i \notin DOMAIN calls
        /\ IF w \in DOMAIN following
           THEN /\ calls' = PutKey(calls, i, PollCall(w, "read", 0))
                /\ threads' = threads
           ELSE /\ calls' = calls
                /\ threads' = [threads EXCEPT ![i].new_trades = <<>>,
                                              ![i].pc = "sleep"]
        /\ cop' = PollStep(i, 131)
        /\ UNCHANGED <<following, last_checked_trades, now, orders, listed,
                       active_monitors, starting, whaleVars>>

\* line 134, and lines 137-141 up to the sending of the request
PollRead(i) ==
    /\ i \in DOMAIN calls
    /\ calls[i].pc = "read"
    /\ calls' = [calls EXCEPT
                   ![i].pc = "fetch",
                   ![i].last_checked = last_checked_of(calls[i].wallet)]
    /\ cop' = PollStep(i, 134)
    /\ UNCHANGED <<following, last_checked_trades, now, orders, listed,
                   threadVars, whaleVars>>

\* lines 137-152: get_trades returns resp or raises; and what the loop does
\* with the trades (lines 296 and 312)
PollWrite(i, resp) ==
    LET c == calls[i]
        new_trades == IF resp.failed THEN <<>>
                      ELSE NewSince(resp.page, c.last_checked)
    IN  /\ i \in DOMAIN calls
        /\ c.pc = "fetch"
        /\ last_checked_trades' = WatermarkAfter(c.wallet, resp)
        /\ calls' = DelKey(calls, i)
        /\ threads' = [threads EXCEPT
                          ![i].new_trades = new_trades,
                          ![i].pc = IF resp.failed THEN HandlerNext
                                    ELSE IF new_trades = <<>>
                                    THEN "sleep" ELSE "copy",
                          ![i].caught = IF resp.failed THEN "get_trades"
                                        ELSE @]
        /\ cop' = PollStep(i, 144)
        /\ UNCHANGED <<following, now, orders, listed, active_monitors,
                       starting, whaleVars>>

NextRace ==
    \/ FollowTrader("w1", <<>>, now)
    \/ UnfollowTrader("w1")
    \/ StartMonitoring("w1", "None")
    \/ \E i \in DOMAIN threads : MonitorTest(i)
    \/ \E i \in DOMAIN threads : PollTest(i)
    \/ \E i \in DOMAIN threads : PollRead(i)
    \/ \E i \in DOMAIN threads, resp \in FeedResponses : PollWrite(i, resp)
    \/ \E i \in DOMAIN threads, order_ok \in BOOLEAN :
          MonitorCopy(i, order_ok, TRUE)
    \/ \E i \in DOMAIN threads : MonitorSleep(i)
    \/ Tick

SpecRace == InitCopy /\ [][NextRace]_vars

\* C39: the wallets with a watermark are the wallets with a record, in
\* every state; and the candidates a poll hands to the loop are newer than
\* the start of the record the wallet has then.
C39_WatermarkIffRecord ==
    [][/\ DOMAIN last_checked_trades' = DOMAIN following'
       /\ \A i \in DOMAIN calls :
            LET w == calls[i].wallet
            IN  (calls[i].pc = "fetch" /\ i \notin DOMAIN calls'
                   /\ w \in DOMAIN following') =>
                  \A j \in DOMAIN threads'[i].new_trades :
                     TimestampOf(threads'[i].new_trades[j])
                        > following'[w].started_at]_vars


----------------------------------------------------------------------------
(* the monitor threads of two wallets and the whale tracker side by side *)

\* what the whale tracker's request returns here: a list with the one
\* trade of 5 shares at 1
TrackerResponses ==
    {resp \in Responses :
        /\ ~FeedFailed(resp)
        /\ resp.body = <<RawTrade("a", Num(2), Num(5), Num(1))>>}

\* what get_trades returns to the polls here: it raises, or returns a page
\* with the one trade stamped later than the clock
FrameResponses ==
    {resp \in FeedResponses :
        \/ resp.failed
        \/ /\ Len(resp.page) = 1
           /\ resp.page[1].transactionHash = "late"}

\* a page with a trade comes while the orders placed and the candidates
\* waiting are fewer than MaxOrders
FrameOffers(resp) ==
    resp.page /= <<>> =>
        Len(orders) + Cardinality({j \in DOMAIN threads :
                                      threads[j].pc = "copy"}) < MaxOrders

NextFrame ==
    \/ \E w \in Wallets : FollowTrader(w, <<>>, now)
    \/ \E w \in Wallets : UnfollowTrader(w)
    \/ \E w \in Wallets : StartMonitoring(w, "None")
    \/ \E i \in DOMAIN threads : MonitorTest(i)
    \/ \E i \in DOMAIN threads, resp \in FrameResponses :
          FrameOffers(resp) /\ MonitorFetch(i, resp)
    \/ \E i \in DOMAIN threads, order_ok \in BOOLEAN :
          MonitorCopy(i, order_ok, TRUE)
    \/ \E i \in DOMAIN threads : MonitorSleep(i)
    \/ \E resp \in TrackerResponses : CheckForNewWhales(resp)

SpecFrame == InitCopy /\ [][NextFrame]_vars


\* wallet b keeps its record, its watermark, its handle and its threads
\* in the step
WalletUntouched(b) ==
    /\ (b \in DOMAIN following') = (b \in DOMAIN following)
    /\ b \in DOMAIN following => following'[b] = following[b]
    /\ (b \in DOMAIN last_checked_trades')
         = (b \in DOMAIN last_checked_trades)
    /\ b \in DOMAIN last_checked_trades =>
          last_checked_trades'[b] = last_checked_trades[b]
    /\ (b \in DOMAIN active_monitors') = (b \in DOMAIN active_monitors)
    /\ b \in DOMAIN active_monitors =>
          active_monitors'[b] = active_monitors[b]
    /\ \A i \in DOMAIN threads' :
          threads'[i].wallet = b =>
              i \in DOMAIN threads /\ threads'[i] = threads[i]

\* C34: a step made for wallet a, by follow_trader, unfollow_trader,
\* start_monitoring or the monitor thread of a (its loop test and exit, its
\* poll, a copy that succeeds, fails or raises), leaves the record, the
\* counters, the watermark, the handle and the thread of every other wallet
\* as they were, and the seen set and the history of the whale tracker too.
C34_WalletsIndependent ==
    [][\A a \in Wallets :
         (copyVars' /= copyVars /\ cop'.wallet = a) =>
            /\ \A b \in Wallets \ {a} : WalletUntouched(b)
            /\ UNCHANGED <<seen_transactions, whale_trades>>]_vars

\* a copy of w1 has succeeded while w2 is followed and polled by its own
\* thread and the whale tracker has seen a trade
C34_Witness ==
    /\ cop.op = "loop" /\ cop.wallet = "w1" /\ cop.result = "success"
    /\ "w2" \in DOMAIN following
    /\ \E i \in Running("w2") : threads[i].pc = "poll"
    /\ seen_transactions /= {}
    /\ whale_trades /= <<>>

=========================================================================
